---- MODULE Spec2Model ----
(***************************************************************************)
(* reddit-radar: the draft store (src/src/draft_store.py), the approval    *)
(* bot (src/src/approval_bot.py), the rate gate of the platform client     *)
(* (src/src/reddit_client.py) and the draft-persisting part of the scan    *)
(* (src/src/scanner.py), as one state machine.                             *)
(*                                                                         *)
(* Processes: the approval bot's loop (one process, volatile state lost on *)
(* a crash), scan runs writing drafts (separate processes), a maintenance  *)
(* call of cleanup_old_drafts, the human who presses buttons and sends     *)
(* text, and a clock.  The durable state is the drafts table, the          *)
(* unconfirmed updates held by the Telegram server, and the replies the    *)
(* platform has accepted.                                                  *)
(*                                                                         *)
(* Nine specifications share the actions.  Spec is the approval workflow   *)
(* on a store that a finished scan has filled with two pending drafts.     *)
(* SpecPipeline starts from the empty store and runs a scan beside the     *)
(* bot, with the human pressing the buttons of the first draft.  SpecStore *)
(* is the store under two overlapping scan runs, the maintenance cleanup   *)
(* and the approval handlers' update calls.  SpecClient is the platform    *)
(* client called directly.  SpecClassifier is one call of                  *)
(* Classifier.classify (src/src/classifier.py), SpecScore one call of      *)
(* score_post, SpecResponder one call of Responder.generate_response       *)
(* (src/src/responder.py), SpecSearch one call of search_category, and     *)
(* SpecScan one run of run_scan from the classified posts of its           *)
(* categories through the drafts sent for approval to the summary          *)
(* notification.                                                           *)
(*                                                                         *)
(* Time is counted in abstract ticks: datetime values are tick numbers,    *)
(* the minimum interval between comments and the retention window of       *)
(* cleanup_old_drafts are given in ticks.                                  *)
(***************************************************************************)
EXTENDS Integers, Sequences, FiniteSets, TLC

\* ---------------------------------------------------------------- bounds
\* the clock runs from 0 to MaxTime
MaxTime == 1
\* inbound updates the human produces in one behaviour
MaxUpdates == 2
\* save_draft calls the scan runs make in one behaviour
MaxSaves == 2
\* crashes/restarts of the approval bot in one behaviour
MaxCrashes == 1
\* direct calls of the platform client in one behaviour
MaxCalls == 3
\* the longest title of a post, in words
MaxTitleWords == 2
\* the posts one category's search returns at most
MaxFound == 2

\* the keyword x community searches of a category
MaxQueries == 2

\* ------------------------------------------------------- program constants
\* search_config defaults: min_score, min_comments
MinScore == 5
MinComments == 2
\* RateLimitConfig.min_seconds_between_comments, in ticks
MinSecondsBetweenComments == 1
\* RateLimitConfig.min_seconds_between_posts, in ticks
MinSecondsBetweenPosts == 2

\* Python None for a datetime, a draft id, a comment id
NoTime == -1
NoComment == 0
NoDraft == "none"

\* ------------------------------------------------------------- value sets
PostIds == {"p1", "p2"}
\* str(uuid.uuid4())[:8]: the n-th fresh short id
IdPool == <<"d1", "d2", "d3", "d4", "d5", "d6">>
\* the draft ids a button payload may carry
EventDraftIds == {"d1", "d2"}
Scanners == {"s1", "s2"}
\* str(self.chat_id): the configured chat; "c2" is any other conversation
ConfiguredChat == "c1"
Chats == {"c1", "c2"}
\* what the draft generator hands to save_draft: content, intent, confidence
\* (confidence in tenths)
Payloads ==
    { [content |-> "gen1", intent |-> "hot_lead", confidence |-> 9],
      [content |-> "gen2", intent |-> "partnership", confidence |-> 6] }
\* cleanup_old_drafts(days): the retention windows tried, in ticks
RetentionChoices == {0, 1}
\* the communities a top-level post may go to
Subreddits == {"python", "startups"}
\* the comments reply_to_comment may answer
CommentIds == {1, 2}

VARIABLES
    now,            \* the clock
    drafts,         \* the drafts table: a set of rows
    next_draft_id,  \* the next fresh short id (uuid4 prefix)
    scan,           \* per scan run: where it is inside send_drafts_for_approval
    saves,          \* save_draft calls started so far
    updates,        \* Telegram server: the unconfirmed updates, oldest first
    next_update_id, \* Telegram server: the id of the next update
    last_update_id, \* ApprovalBot.last_update_id
    pending_edits,  \* ApprovalBot.pending_edits: chat -> draft id or NoDraft
    last_comment_time, \* RedditClient.last_comment_time (NoTime: None / no client)
    batch,          \* the updates returned by get_updates not yet iterated
    pc,             \* where the bot is: "loop", "post_call", "post_record", ...
    cur,            \* the update being handled
    draft,          \* the Draft object the handler holds (a snapshot of the row)
    result,         \* the comment id create_comment returned
    outcome,        \* what the bot last told the human
    handler_calls,  \* the calls the running handler made to Telegram's answer and to the platform
    comments,       \* the platform: the replies it accepted, in order
    crashes,        \* restarts of the bot so far
    last_post_time, \* RedditClient.last_post_time: community -> time or NoTime
    call,           \* what the last direct call of the client returned or raised
    accepted,       \* the platform: every post and reply it accepted, with its time
    credential,     \* which AI credentials the settings hold
    post,           \* the post dict handed to classify / score_post / generate_response
    response,       \* what the classification request to the provider gives
    classified,     \* what Classifier.classify returned (or the exception it raised)
    config,         \* the keywords configuration of the scan
    score,          \* what score_post returned
    generated,      \* what Responder.generate_response returned, and its provider calls
    found,          \* run_scan: per category, what search and classification gave
    results,        \* run_scan: results[category_key], the top posts kept
    notifications,  \* the notifier: the summary notifications sent, in order
    run,            \* run_scan: where it is, and its stats
    search          \* search_category: the posts gathered so far, and what it returned

store_vars == <<drafts, next_draft_id>>
scan_vars == <<scan, saves>>
tg_vars == <<updates, next_update_id>>
radar_vars == <<credential, post, response, classified, config, score, generated,
                found, results, notifications, run, search>>
bot_vars == <<last_update_id, pending_edits, last_comment_time, batch, pc, cur,
              draft, result, outcome, handler_calls, crashes>>
vars == <<now, drafts, next_draft_id, scan, saves, updates, next_update_id,
          last_update_id, pending_edits, last_comment_time, batch, pc, cur,
          draft, result, outcome, handler_calls, comments, crashes, last_post_time, call,
          accepted, credential, post, response, classified, config, score,
          generated, found, results, notifications, run, search>>

\* ------------------------------------------------------------------ store

NoRow == [id |-> NoDraft]
NoUpdate == [update_id |-> 0, kind |-> "none"]

\* the rows a WHERE clause selects
RowsById(rows, draft_id) == {r \in rows : r.id = draft_id}
RowsByPost(rows, post_id) == {r \in rows : r.post_id = post_id}

\* a faulty variant, for sensitivity: a missing id yields some other row
GetDraftAnyRow(rows, draft_id) ==
    IF RowsById(rows, draft_id) # {} THEN CHOOSE r \in RowsById(rows, draft_id) : TRUE
    ELSE IF rows = {} THEN NoRow
    ELSE CHOOSE r \in rows : TRUE

\* DraftStore.get_draft: the row, or None
GetDraft(rows, draft_id) ==
    IF RowsById(rows, draft_id) = {} THEN NoRow
    ELSE CHOOSE r \in RowsById(rows, draft_id) : TRUE

\* save_draft's SELECT id FROM drafts WHERE post_id = ?
SelectExisting(rows, post_id) ==
    IF RowsByPost(rows, post_id) = {} THEN NoDraft
    ELSE (CHOOSE r \in RowsByPost(rows, post_id) : TRUE).id

\* a schema without UNIQUE(post_id): only the primary key is enforced
ViolatesConstraintsNoUnique(rows, row) ==
    \E r \in rows : r.id = row.id

\* the table's constraints: id TEXT PRIMARY KEY, UNIQUE(post_id)
ViolatesConstraints(rows, row) ==
    \/ \E r \in rows : r.id = row.id
    \/ \E r \in rows : r.post_id = row.post_id

\* save_draft's INSERT: a row with status 'pending', no posted_at, no comment id
NewRow(draft_id, post_id, payload, t) ==
    [id |-> draft_id, post_id |-> post_id, content |-> payload.content,
     intent |-> payload.intent, confidence |-> payload.confidence,
     status |-> "pending", created_at |-> t, posted_at |-> NoTime,
     reddit_comment_id |-> NoComment]

\* a faulty variant, for sensitivity: the rescan keeps the status the row had
UpdateOnRescanKeepStatus(rows, post_id, payload, t) ==
    { IF r.post_id = post_id
        THEN [r EXCEPT !.content = payload.content, !.intent = payload.intent,
                       !.confidence = payload.confidence, !.created_at = t]
        ELSE r : r \in rows }

\* a faulty variant, for sensitivity: the rescan gives the row the fresh short id
UpdateOnRescanFreshId(rows, post_id, payload, t) ==
    { IF r.post_id = post_id
        THEN [r EXCEPT !.id = IdPool[Len(IdPool)], !.content = payload.content,
                       !.intent = payload.intent, !.confidence = payload.confidence,
                       !.status = "pending", !.created_at = t]
        ELSE r : r \in rows }

\* save_draft's UPDATE ... WHERE post_id = ?
UpdateOnRescan(rows, post_id, payload, t) ==
    { IF r.post_id = post_id
        THEN [r EXCEPT !.content = payload.content, !.intent = payload.intent,
                       !.confidence = payload.confidence, !.status = "pending",
                       !.created_at = t]
        ELSE r : r \in rows }

\* a faulty variant, for sensitivity: posted_at is never set
UpdateStatusNoTimestamp(rows, draft_id, status, comment_id, t) ==
    { IF r.id = draft_id
        THEN [r EXCEPT !.status = status, !.posted_at = NoTime,
                       !.reddit_comment_id = comment_id]
        ELSE r : r \in rows }

\* DraftStore.update_status: one UPDATE ... WHERE id = ?
UpdateStatus(rows, draft_id, status, comment_id, t) ==
    { IF r.id = draft_id
        THEN [r EXCEPT !.status = status,
                       !.posted_at = IF status = "posted" THEN t ELSE NoTime,
                       !.reddit_comment_id = comment_id]
        ELSE r : r \in rows }

\* a faulty variant, for sensitivity: the status is set but the text is not stored
UpdateContentKeepsContent(rows, draft_id, new_content) ==
    { IF r.id = draft_id THEN [r EXCEPT !.status = "edited"] ELSE r : r \in rows }

\* DraftStore.update_content: one UPDATE ... WHERE id = ?
UpdateContent(rows, draft_id, new_content) ==
    { IF r.id = draft_id
        THEN [r EXCEPT !.content = new_content, !.status = "edited"]
        ELSE r : r \in rows }

\* a faulty variant, for sensitivity: the DELETE without its status condition
CleanupOldDraftsAnyStatus(rows, days, t) ==
    { r \in rows : ~(r.created_at < t - days) }

\* DraftStore.cleanup_old_drafts: the rows the DELETE keeps.  created_at is ISO
\* text ("...T..."), the cutoff is SQLite datetime() text ("... ..."), both UTC:
\* they differ in the date or, on one date, at the separator, where the row's
\* text is the greater.  With a tick for a calendar day the comparison of the
\* texts is the comparison of the dates.
CleanupOldDrafts(rows, days, t) ==
    { r \in rows : ~(r.created_at < t - days /\ r.status \in {"rejected", "posted"}) }

\* a faulty variant, for sensitivity: no post ever counts as processed
IsPostProcessedNever(rows, post_id) == FALSE

\* DraftStore.is_post_processed: a draft for the post exists and the human has
\* already acted on it (it is neither pending nor edited)
IsPostProcessed(rows, post_id) ==
    \E r \in RowsByPost(rows, post_id) : r.status \notin {"pending", "edited"}

\* ------------------------------------------------------------------- scan

\* between two drafts of the loop; skipped: the post the last iteration passed over
IdleScan == [pc |-> "idle", skipped |-> "none"]

\* send_drafts_for_approval, one draft of the loop: the is_post_processed check
\* (a processed post is skipped: continue) and save_draft's SELECT
ScanRead(sc, posts) ==
    /\ scan[sc].pc = "idle"
    /\ saves < MaxSaves
    /\ \E p \in posts, pl \in Payloads :
          IF IsPostProcessed(drafts, p)
            THEN /\ scan' = [scan EXCEPT ![sc] = [pc |-> "idle", skipped |-> p]]
                 /\ UNCHANGED saves
            ELSE /\ scan' = [scan EXCEPT ![sc] =
                               [pc |-> "write", post_id |-> p, payload |-> pl,
                                existing |-> SelectExisting(drafts, p),
                                prev |-> "none"]]
                 /\ saves' = saves + 1
    /\ UNCHANGED <<now, store_vars, tg_vars, bot_vars, comments,
                   last_post_time, call, accepted, radar_vars>>

\* save_draft's UPDATE or INSERT, and commit.  An INSERT the constraints reject
\* raises IntegrityError, which ends the scan run.
ScanWrite(sc) ==
    /\ scan[sc].pc = "write"
    /\ LET s == scan[sc]
           row == NewRow(IdPool[next_draft_id], s.post_id, s.payload, now)
       IN  IF s.existing # NoDraft
             THEN /\ drafts' = UpdateOnRescan(drafts, s.post_id, s.payload, now)
                  /\ scan' = [scan EXCEPT ![sc].pc = "send",
                                ![sc].prev =
                                   IF RowsByPost(drafts, s.post_id) = {} THEN "gone"
                                   ELSE (CHOOSE r \in RowsByPost(drafts, s.post_id) : TRUE).status]
                  /\ UNCHANGED next_draft_id
             ELSE IF ViolatesConstraints(drafts, row)
                    THEN /\ scan' = [scan EXCEPT ![sc] = IdleScan]
                         /\ UNCHANGED <<drafts, next_draft_id>>
                    ELSE /\ drafts' = drafts \cup {row}
                         /\ next_draft_id' = next_draft_id + 1
                         /\ scan' = [scan EXCEPT ![sc].pc = "send",
                                                 ![sc].existing = row.id]
    /\ UNCHANGED <<now, saves, tg_vars, bot_vars, comments,
                   last_post_time, call, accepted, radar_vars>>

\* telegram.send_draft_for_approval: the message with the three buttons
ScanSend(sc) ==
    /\ scan[sc].pc = "send"
    /\ scan' = [scan EXCEPT ![sc] = IdleScan]
    /\ UNCHANGED <<now, store_vars, saves, tg_vars, bot_vars, comments,
                   last_post_time, call, accepted, radar_vars>>

\* a maintenance call of cleanup_old_drafts(days)
Cleanup ==
    /\ \E days \in RetentionChoices :
          /\ drafts' = CleanupOldDrafts(drafts, days, now)
          /\ drafts' # drafts
    /\ UNCHANGED <<now, next_draft_id, scan_vars, tg_vars, bot_vars, comments,
                   last_post_time, call, accepted, radar_vars>>

Tick ==
    /\ now < MaxTime
    /\ now' = now + 1
    /\ UNCHANGED <<store_vars, scan_vars, tg_vars, bot_vars, comments,
                   last_post_time, call, accepted, radar_vars>>

\* --------------------------------------------------------- inbound events

\* callback_query["data"] as its pieces: "<action>:<draft_id>"
\* the buttons of the drafts, a button with an unknown action, a payload with no ":"
CallbackDatas ==
    { <<a, ":", d>> : a \in {"post", "edit", "skip"}, d \in EventDraftIds }
    \cup { <<"bogus", ":", "d1">>, <<"post", "d1">> }
MessageTexts == {"/cancel", " /Cancel ", "my own reply"}

\* what the human can send: a button press or a text message.  The approval
\* messages, and so their buttons, exist in the configured chat alone
\* (send_draft_for_approval posts to config.chat_id)
InboundEvents ==
    { [kind |-> "callback", chat |-> ConfiguredChat, data |-> d] : d \in CallbackDatas }
    \cup { [kind |-> "message", chat |-> ConfiguredChat, text |-> t] : t \in MessageTexts }
    \cup { [kind |-> "message", chat |-> "c2", text |-> "my own reply"] }

\* the buttons of the first draft and a reply in the configured chat
PipelineEvents ==
    { [kind |-> "callback", chat |-> ConfiguredChat, data |-> <<a, ":", "d1">>] :
        a \in {"post", "edit", "skip"} }
    \cup { [kind |-> "message", chat |-> ConfiguredChat, text |-> "my own reply"] }

\* the human presses a button or sends a text; Telegram queues the update.
\* The queue is read by get_updates alone, so an update that arrives while a
\* handler runs is the same as one that arrives just before the next poll.
Human(events) ==
    /\ next_update_id <= MaxUpdates
    /\ pc = "loop"
    /\ batch = <<>>
    /\ \E ev \in events :
          updates' = Append(updates,
                        IF ev.kind = "callback"
                          THEN [update_id |-> next_update_id, kind |-> "callback",
                                chat |-> ev.chat, data |-> ev.data]
                          ELSE [update_id |-> next_update_id, kind |-> "message",
                                chat |-> ev.chat, text |-> ev.text])
    /\ next_update_id' = next_update_id + 1
    /\ UNCHANGED <<now, store_vars, scan_vars, bot_vars, comments,
                   last_post_time, call, accepted, radar_vars>>

\* ------------------------------------------------------ platform client

\* a faulty variant, for sensitivity: the reply gate lets everything through
CanCommentAlways(last, t) == TRUE

\* RedditClient._can_comment
CanComment(last, t) ==
    ~(last # NoTime /\ t - last < MinSecondsBetweenComments)

\* RedditClient._can_post_to_subreddit
CanPostToSubreddit(times, sub, t) ==
    ~(times[sub] # NoTime /\ t - times[sub] < MinSecondsBetweenPosts)

\* (min_wait - time_since_last).total_seconds()
WaitRemaining(min_wait, last, t) == min_wait - (t - last)

\* a faulty variant, for sensitivity: one timestamp for every community
StampPostAll(times, sub, t) == [c \in DOMAIN times |-> t]

\* self.last_post_time[subreddit] = datetime.now()
StampPost(times, sub, t) == [times EXCEPT ![sub] = t]

\* no call of the client has been made
NoCall == [n |-> 0, op |-> "none", target |-> "none", result |-> "none", wait |-> 0]

\* what the n-th direct call of the client gave its caller: "ok", or the error
Returned(op, target, res, wait) ==
    [n |-> call.n + 1, op |-> op, target |-> target, result |-> res, wait |-> wait]

\* a post or reply the platform accepted; returned: the client call returned
\* normally after it
Accepted(op, target, ok) ==
    [op |-> op, target |-> target, at |-> now, client |-> crashes, returned |-> ok]

\* the reply the platform accepted, with what was being handled when it was sent
Submitted(post_id, text) ==
    [comment_id |-> Len(comments) + 1, post_id |-> post_id, text |-> text,
     draft_id |-> draft.id, cause |-> cur,
     marker |-> IF cur.kind = "message" THEN pending_edits[cur.chat] ELSE NoDraft]

\* the error text tells a rate limit from any other failure
LooksRateLimited(err) == err \in {"must wait", "rate"}

\* a faulty variant, for sensitivity: the timestamp is set before the platform call
TimeAfterRaiseStamped(last, t) == t

\* the assignment of the timestamp is the statement after the platform call:
\* a call that raises leaves the timestamp as it was
TimeAfterRaise(last, t) == last

\* RedditClient.create_post: the gate, the body check, submit, the flair, the
\* timestamp.  A flair selection that raises leaves the post on the platform
\* and the community's timestamp as it was.
ClientCreatePost ==
    /\ call.n < MaxCalls
    /\ \E sub \in Subreddits, body \in {"text", "none"},
          platform \in {"ok", "submit_fails", "flair_fails"} :
          IF ~CanPostToSubreddit(last_post_time, sub, now)
            THEN /\ call' = Returned("create_post", sub, "must_wait",
                          WaitRemaining(MinSecondsBetweenPosts, last_post_time[sub], now))
                 /\ UNCHANGED <<last_post_time, accepted>>
          ELSE IF body = "none"
            THEN /\ call' = Returned("create_post", sub, "missing_body", 0)
                 /\ UNCHANGED <<last_post_time, accepted>>
          ELSE IF platform = "submit_fails"
            THEN /\ call' = Returned("create_post", sub, "platform_error", 0)
                 /\ last_post_time' = [last_post_time EXCEPT
                                         ![sub] = TimeAfterRaise(last_post_time[sub], now)]
                 /\ UNCHANGED accepted
          ELSE IF platform = "flair_fails"
            THEN /\ call' = Returned("create_post", sub, "platform_error", 0)
                 /\ accepted' = Append(accepted, Accepted("create_post", sub, FALSE))
                 /\ UNCHANGED last_post_time
          ELSE /\ call' = Returned("create_post", sub, "ok", 0)
               /\ accepted' = Append(accepted, Accepted("create_post", sub, TRUE))
               /\ last_post_time' = StampPost(last_post_time, sub, now)
    /\ UNCHANGED <<now, store_vars, scan_vars, tg_vars, bot_vars, comments, radar_vars>>

\* RedditClient.create_comment, called directly
ClientCreateComment ==
    /\ call.n < MaxCalls
    /\ \E post_id \in PostIds, platform \in {"ok", "reply_fails"} :
          IF ~CanComment(last_comment_time, now)
            THEN /\ call' = Returned("create_comment", post_id, "must_wait",
                          WaitRemaining(MinSecondsBetweenComments, last_comment_time, now))
                 /\ UNCHANGED <<last_comment_time, accepted, comments>>
          ELSE IF platform = "reply_fails"
            THEN /\ call' = Returned("create_comment", post_id, "platform_error", 0)
                 /\ last_comment_time' = TimeAfterRaise(last_comment_time, now)
                 /\ UNCHANGED <<accepted, comments>>
          ELSE /\ call' = Returned("create_comment", post_id, "ok", 0)
               /\ comments' = Append(comments, Submitted(post_id, "my own reply"))
               /\ accepted' = Append(accepted, Accepted("create_comment", post_id, TRUE))
               /\ last_comment_time' = now
    /\ UNCHANGED <<now, store_vars, scan_vars, tg_vars, last_update_id,
                   pending_edits, batch, pc, cur, draft, result, outcome, handler_calls, crashes,
                   last_post_time, radar_vars>>

\* RedditClient.reply_to_comment
ClientReplyToComment ==
    /\ call.n < MaxCalls
    /\ \E comment_id \in CommentIds, platform \in {"ok", "reply_fails"} :
          IF ~CanComment(last_comment_time, now)
            THEN /\ call' = Returned("reply_to_comment", comment_id, "must_wait",
                          WaitRemaining(MinSecondsBetweenComments, last_comment_time, now))
                 /\ UNCHANGED <<last_comment_time, accepted>>
          ELSE IF platform = "reply_fails"
            THEN /\ call' = Returned("reply_to_comment", comment_id, "platform_error", 0)
                 /\ last_comment_time' = TimeAfterRaise(last_comment_time, now)
                 /\ UNCHANGED accepted
          ELSE /\ call' = Returned("reply_to_comment", comment_id, "ok", 0)
               /\ accepted' = Append(accepted, Accepted("reply_to_comment", comment_id, TRUE))
               /\ last_comment_time' = now
    /\ UNCHANGED <<now, store_vars, scan_vars, tg_vars, last_update_id,
                   pending_edits, batch, pc, cur, draft, result, outcome, handler_calls, crashes,
                   last_post_time, comments, radar_vars>>

\* RedditClient.search_posts: no gate; the search of the community returns
\* its posts or raises, and no timestamp is assigned
ClientSearchPosts ==
    /\ call.n < MaxCalls
    /\ \E sub \in Subreddits, platform \in {"ok", "search_fails"} :
          call' = Returned("search_posts", sub,
                           IF platform = "ok" THEN "ok" ELSE "platform_error", 0)
    /\ UNCHANGED <<now, store_vars, scan_vars, tg_vars, bot_vars, comments,
                   last_post_time, accepted, radar_vars>>

\* ----------------------------------------------------------- approval bot

\* data.split(":", 1): the position of the first ":" (0: there is none)
ColonAt(data) ==
    IF \E i \in 1..Len(data) : data[i] = ":"
      THEN CHOOSE i \in 1..Len(data) :
              data[i] = ":" /\ \A j \in 1..(i - 1) : data[j] # ":"
      ELSE 0
ActionOf(data) == SubSeq(data, 1, ColonAt(data) - 1)
DraftIdOf(data) ==
    LET rest == SubSeq(data, ColonAt(data) + 1, Len(data))
    IN  IF Len(rest) = 1 THEN rest[1] ELSE "?"

\* a faulty variant, for sensitivity: the skip button is wired to the post handler
RouteSkipPosts(action) ==
    IF action = <<"post">> THEN "post"
    ELSE IF action = <<"edit">> THEN "edit"
    ELSE IF action = <<"skip">> THEN "post"
    ELSE "unknown"

\* a faulty variant, for sensitivity: the edit button is wired to the skip handler
RouteEditSkips(action) ==
    IF action = <<"post">> THEN "post"
    ELSE IF action = <<"edit">> THEN "skip"
    ELSE IF action = <<"skip">> THEN "skip"
    ELSE "unknown"

\* a faulty variant, for sensitivity: the skip button is wired to the edit handler
RouteSkipEdits(action) ==
    IF action = <<"post">> THEN "post"
    ELSE IF action = <<"edit">> THEN "edit"
    ELSE IF action = <<"skip">> THEN "edit"
    ELSE "unknown"

\* a faulty variant, for sensitivity: an unknown action falls through to skip
RouteUnknownSkips(action) ==
    IF action = <<"post">> THEN "post"
    ELSE IF action = <<"edit">> THEN "edit"
    ELSE "skip"

\* handle_callback's if/elif chain on the action
Route(action) ==
    IF action = <<"post">> THEN "post"
    ELSE IF action = <<"edit">> THEN "edit"
    ELSE IF action = <<"skip">> THEN "skip"
    ELSE "unknown"

\* a faulty variant, for sensitivity: the handler never answers the callback
AnswerCallbackDrops(calls) == calls

\* TelegramNotifier.answer_callback: one answerCallbackQuery request; it catches
\* every exception, so the handler goes on whatever the request did
AnswerCallback(calls) == Append(calls, "answer_callback")

\* RedditClient.create_comment as the handler calls it, once per call
CreateComment(calls) == Append(calls, "create_comment")

\* a faulty variant, for sensitivity: the except branch goes back to the call
AfterFailureRetries(at) == at

\* the except branches of _handle_post and handle_message report and return
AfterFailure(at) == "loop"

\* a faulty variant, for sensitivity: the marker is looked up under the configured chat
MessageChatConfigured(u) == ConfiguredChat

\* handle_message: chat_id = str(message.get("chat", {}).get("id"))
MessageChat(u) == u.chat

\* ApprovalBot.get_updates: offset = last_update_id + 1.  Telegram forgets the
\* updates below the offset and returns the rest.
GetUpdates ==
    /\ pc = "loop"
    /\ batch = <<>>
    /\ updates' = SelectSeq(updates, LAMBDA u : u.update_id >= last_update_id + 1)
    /\ batch' = updates'
    /\ batch' # <<>>
    /\ UNCHANGED <<now, store_vars, scan_vars, next_update_id, last_update_id,
                   pending_edits, last_comment_time, pc, cur, draft, result,
                   outcome, handler_calls, crashes, comments,
                   last_post_time, call, accepted, radar_vars>>

\* run(): the next update of the batch; the cursor is set before the handler runs
Take(kind) ==
    /\ pc = "loop"
    /\ batch # <<>>
    /\ Head(batch).kind = kind
    /\ last_update_id' = Head(batch).update_id
    /\ cur' = Head(batch)
    /\ batch' = Tail(batch)

\* handle_callback: no ":" in the data
CallbackMalformed ==
    /\ Take("callback")
    /\ ColonAt(Head(batch).data) = 0
    /\ outcome' = "invalid"
    /\ handler_calls' = AnswerCallback(<<>>)
    /\ UNCHANGED <<now, store_vars, scan_vars, tg_vars, pending_edits,
                   last_comment_time, pc, draft, result, crashes, comments,
                   last_post_time, call, accepted, radar_vars>>

\* handle_callback: get_draft found nothing
CallbackNotFound ==
    /\ Take("callback")
    /\ ColonAt(Head(batch).data) # 0
    /\ GetDraft(drafts, DraftIdOf(Head(batch).data)) = NoRow
    /\ outcome' = "not_found"
    /\ handler_calls' = AnswerCallback(<<>>)
    /\ UNCHANGED <<now, store_vars, scan_vars, tg_vars, pending_edits,
                   last_comment_time, pc, draft, result, crashes, comments,
                   last_post_time, call, accepted, radar_vars>>

\* handle_callback: an action that is none of post, edit, skip
CallbackUnknown ==
    /\ Take("callback")
    /\ ColonAt(Head(batch).data) # 0
    /\ GetDraft(drafts, DraftIdOf(Head(batch).data)) # NoRow
    /\ Route(ActionOf(Head(batch).data)) = "unknown"
    /\ outcome' = "unknown_action"
    /\ handler_calls' = AnswerCallback(<<>>)
    /\ UNCHANGED <<now, store_vars, scan_vars, tg_vars, pending_edits,
                   last_comment_time, pc, draft, result, crashes, comments,
                   last_post_time, call, accepted, radar_vars>>

\* handle_callback -> _handle_post, up to the call of create_comment
CallbackPost ==
    /\ Take("callback")
    /\ ColonAt(Head(batch).data) # 0
    /\ GetDraft(drafts, DraftIdOf(Head(batch).data)) # NoRow
    /\ Route(ActionOf(Head(batch).data)) = "post"
    /\ draft' = GetDraft(drafts, DraftIdOf(Head(batch).data))
    /\ pc' = "post_call"
    /\ outcome' = "posting"
    /\ handler_calls' = AnswerCallback(<<>>)
    /\ UNCHANGED <<now, store_vars, scan_vars, tg_vars, pending_edits,
                   last_comment_time, result, crashes, comments,
                   last_post_time, call, accepted, radar_vars>>

\* handle_callback -> _handle_edit_request
CallbackEdit ==
    /\ Take("callback")
    /\ ColonAt(Head(batch).data) # 0
    /\ GetDraft(drafts, DraftIdOf(Head(batch).data)) # NoRow
    /\ Route(ActionOf(Head(batch).data)) = "edit"
    /\ pending_edits' = [pending_edits EXCEPT ![ConfiguredChat] =
                            GetDraft(drafts, DraftIdOf(Head(batch).data)).id]
    /\ outcome' = "edit_mode"
    /\ handler_calls' = AnswerCallback(<<>>)
    /\ UNCHANGED <<now, store_vars, scan_vars, tg_vars, last_comment_time, pc,
                   draft, result, crashes, comments,
                   last_post_time, call, accepted, radar_vars>>

\* handle_callback -> _handle_skip
CallbackSkip ==
    /\ Take("callback")
    /\ ColonAt(Head(batch).data) # 0
    /\ GetDraft(drafts, DraftIdOf(Head(batch).data)) # NoRow
    /\ Route(ActionOf(Head(batch).data)) = "skip"
    /\ drafts' = UpdateStatus(drafts, GetDraft(drafts, DraftIdOf(Head(batch).data)).id,
                              "rejected", NoComment, now)
    /\ outcome' = "skipped"
    /\ handler_calls' = AnswerCallback(<<>>)
    /\ UNCHANGED <<now, next_draft_id, scan_vars, tg_vars, pending_edits,
                   last_comment_time, pc, draft, result, crashes, comments,
                   last_post_time, call, accepted, radar_vars>>

\* a faulty variant, for sensitivity: the failure branch marks the draft rejected
PostFailureRowsRejects(rows, d) ==
    UpdateStatus(rows, d.id, "rejected", NoComment, NoTime)

\* _handle_post's except branch: it reports and writes nothing to the store
PostFailureRows(rows, d) == rows

\* what the except branch tells the human
PostFailureOutcome(err) ==
    IF LooksRateLimited(err) THEN "rate_limited" ELSE "failed"

\* _handle_post: create_comment raised (the rate gate, or the platform call)
PostCallFails ==
    /\ pc = "post_call"
    /\ \E err \in {"must wait", "api error"} :
          /\ (err = "must wait") <=> ~CanComment(last_comment_time, now)
          /\ outcome' = PostFailureOutcome(err)
    /\ handler_calls' = CreateComment(handler_calls)
    /\ drafts' = PostFailureRows(drafts, draft)
    /\ pc' = AfterFailure("post_call")
    /\ UNCHANGED <<now, next_draft_id, scan_vars, tg_vars, last_update_id,
                   pending_edits, last_comment_time, batch, cur, draft, result,
                   crashes, comments,
                   last_post_time, call, accepted, radar_vars>>

\* _handle_post: create_comment passed the gate and the platform accepted the reply
PostCallOk ==
    /\ pc = "post_call"
    /\ CanComment(last_comment_time, now)
    /\ comments' = Append(comments, Submitted(draft.post_id, draft.content))
    /\ last_comment_time' = now
    /\ accepted' = Append(accepted, Accepted("create_comment", draft.post_id, TRUE))
    /\ result' = Len(comments) + 1
    /\ handler_calls' = CreateComment(handler_calls)
    /\ pc' = "post_record"
    /\ UNCHANGED <<now, store_vars, scan_vars, tg_vars, last_update_id,
                   pending_edits, batch, cur, draft, outcome, crashes,
                   last_post_time, call, radar_vars>>

\* _handle_post: update_status(draft.id, POSTED, comment id), then the message
PostRecord ==
    /\ pc = "post_record"
    /\ drafts' = UpdateStatus(drafts, draft.id, "posted", result, now)
    /\ outcome' = "posted"
    /\ pc' = "loop"
    /\ UNCHANGED <<now, next_draft_id, scan_vars, tg_vars, last_update_id,
                   pending_edits, last_comment_time, batch, cur, draft, result,
                   handler_calls, crashes, comments,
                   last_post_time, call, accepted, radar_vars>>

\* a message text as the sequence of its characters
Chars(text) ==
    CASE text = "/cancel" -> <<"/", "c", "a", "n", "c", "e", "l">>
      [] text = " /Cancel " -> <<" ", "/", "C", "a", "n", "c", "e", "l", " ">>
      [] text = "my own reply" ->
            <<"m", "y", " ", "o", "w", "n", " ", "r", "e", "p", "l", "y">>

Whitespace == {" "}
UpperToLower == ("A" :> "a") @@ ("C" :> "c") @@ ("E" :> "e") @@ ("L" :> "l") @@ ("N" :> "n")

\* str.strip(): without the leading and trailing whitespace
Strip(cs) ==
    LET keep == {i \in 1..Len(cs) : cs[i] \notin Whitespace}
    IN  IF keep = {} THEN <<>>
        ELSE SubSeq(cs, CHOOSE i \in keep : \A j \in keep : i <= j,
                        CHOOSE i \in keep : \A j \in keep : i >= j)

\* str.lower()
Lower(cs) ==
    [i \in 1..Len(cs) |->
        IF cs[i] \in DOMAIN UpperToLower THEN UpperToLower[cs[i]] ELSE cs[i]]

\* a faulty variant, for sensitivity: the text is compared as it was sent
IsCancelExact(text) ==
    Chars(text) = <<"/", "c", "a", "n", "c", "e", "l">>

\* text.strip().lower() == "/cancel"
IsCancel(text) ==
    Lower(Strip(Chars(text))) = <<"/", "c", "a", "n", "c", "e", "l">>

\* a faulty variant, for sensitivity: the marker is left in place
ClearMarkerKeeps(edits, chat) == edits

\* del self.pending_edits[chat_id]
ClearMarker(edits, chat) == [edits EXCEPT ![chat] = NoDraft]

\* handle_message: no pending edit for this chat
MessageNoMarker ==
    /\ Take("message")
    /\ pending_edits[MessageChat(Head(batch))] = NoDraft
    /\ outcome' = "ignored"
    /\ handler_calls' = <<>>
    /\ UNCHANGED <<now, store_vars, scan_vars, tg_vars, pending_edits,
                   last_comment_time, pc, draft, result, crashes, comments,
                   last_post_time, call, accepted, radar_vars>>

\* handle_message: /cancel
MessageCancel ==
    /\ Take("message")
    /\ pending_edits[MessageChat(Head(batch))] # NoDraft
    /\ IsCancel(Head(batch).text)
    /\ pending_edits' = ClearMarker(pending_edits, MessageChat(Head(batch)))
    /\ outcome' = "cancelled"
    /\ handler_calls' = <<>>
    /\ UNCHANGED <<now, store_vars, scan_vars, tg_vars, last_comment_time, pc,
                   draft, result, crashes, comments,
                   last_post_time, call, accepted, radar_vars>>

\* handle_message: replacement text, but the draft is gone
MessageDraftGone ==
    /\ Take("message")
    /\ pending_edits[MessageChat(Head(batch))] # NoDraft
    /\ ~IsCancel(Head(batch).text)
    /\ GetDraft(drafts, pending_edits[MessageChat(Head(batch))]) = NoRow
    /\ pending_edits' = ClearMarker(pending_edits, MessageChat(Head(batch)))
    /\ outcome' = "ignored"
    /\ handler_calls' = <<>>
    /\ UNCHANGED <<now, store_vars, scan_vars, tg_vars, last_comment_time, pc,
                   draft, result, crashes, comments,
                   last_post_time, call, accepted, radar_vars>>

\* handle_message: replacement text; update_content, up to the call of create_comment
MessageEdit ==
    /\ Take("message")
    /\ pending_edits[MessageChat(Head(batch))] # NoDraft
    /\ ~IsCancel(Head(batch).text)
    /\ GetDraft(drafts, pending_edits[MessageChat(Head(batch))]) # NoRow
    /\ draft' = GetDraft(drafts, pending_edits[MessageChat(Head(batch))])
    /\ drafts' = UpdateContent(drafts, pending_edits[MessageChat(Head(batch))], Head(batch).text)
    /\ pc' = "edit_call"
    /\ outcome' = "posting"
    /\ handler_calls' = <<>>
    /\ UNCHANGED <<now, next_draft_id, scan_vars, tg_vars, pending_edits,
                   last_comment_time, result, crashes, comments,
                   last_post_time, call, accepted, radar_vars>>

\* handle_message: create_comment raised; the marker is deleted
EditCallFails ==
    /\ pc = "edit_call"
    /\ \E err \in {"must wait", "api error"} :
          (err = "must wait") <=> ~CanComment(last_comment_time, now)
    /\ outcome' = "failed"
    /\ handler_calls' = CreateComment(handler_calls)
    /\ pending_edits' = ClearMarker(pending_edits, MessageChat(cur))
    /\ pc' = AfterFailure("edit_call")
    /\ UNCHANGED <<now, store_vars, scan_vars, tg_vars, last_update_id,
                   last_comment_time, batch, cur, draft, result, crashes, comments,
                   last_post_time, call, accepted, radar_vars>>

\* handle_message: the platform accepted the edited reply
EditCallOk ==
    /\ pc = "edit_call"
    /\ CanComment(last_comment_time, now)
    /\ comments' = Append(comments, Submitted(draft.post_id, cur.text))
    /\ last_comment_time' = now
    /\ accepted' = Append(accepted, Accepted("create_comment", draft.post_id, TRUE))
    /\ result' = Len(comments) + 1
    /\ handler_calls' = CreateComment(handler_calls)
    /\ pc' = "edit_record"
    /\ UNCHANGED <<now, store_vars, scan_vars, tg_vars, last_update_id,
                   pending_edits, batch, cur, draft, outcome, crashes,
                   last_post_time, call, radar_vars>>

\* handle_message: update_status(draft_id, POSTED, comment id); the marker is deleted
EditRecord ==
    /\ pc = "edit_record"
    /\ drafts' = UpdateStatus(drafts, pending_edits[MessageChat(cur)], "posted", result, now)
    /\ pending_edits' = ClearMarker(pending_edits, MessageChat(cur))
    /\ outcome' = "posted"
    /\ pc' = "loop"
    /\ UNCHANGED <<now, next_draft_id, scan_vars, tg_vars, last_update_id,
                   last_comment_time, batch, cur, draft, result, handler_calls,
                   crashes, comments,
                   last_post_time, call, accepted, radar_vars>>

\* the bot's process dies and is started again: __init__ state, same store
Crash ==
    /\ crashes < MaxCrashes
    /\ crashes' = crashes + 1
    /\ last_update_id' = 0
    /\ pending_edits' = [c \in Chats |-> NoDraft]
    /\ last_comment_time' = NoTime
    /\ last_post_time' = [sub \in Subreddits |-> NoTime]
    /\ batch' = <<>>
    /\ pc' = "loop"
    /\ cur' = NoUpdate
    /\ draft' = NoRow
    /\ result' = NoComment
    /\ outcome' = "none"
    /\ handler_calls' = <<>>
    /\ UNCHANGED <<now, store_vars, scan_vars, tg_vars, comments, call, accepted, radar_vars>>

\* another writer's update_status call on a row: the two calls the handlers make
StoreUpdateStatus ==
    /\ \E r \in drafts, st \in {"posted", "rejected"} :
          drafts' = UpdateStatus(drafts, r.id, st,
                                 IF st = "posted" THEN 1 ELSE NoComment, now)
    /\ drafts' # drafts
    /\ UNCHANGED <<now, next_draft_id, scan_vars, tg_vars, bot_vars, comments,
                   last_post_time, call, accepted, radar_vars>>

\* another writer's update_content call on a row
StoreUpdateContent ==
    /\ \E r \in drafts :
          drafts' = UpdateContent(drafts, r.id, "my own reply")
    /\ drafts' # drafts
    /\ UNCHANGED <<now, next_draft_id, scan_vars, tg_vars, bot_vars, comments,
                   last_post_time, call, accepted, radar_vars>>

\* ------------------------------------------------------------- classifier

\* a Python float: a finite value counted in tenths, or nan, or inf (v = 1)
\* and -inf (v = -1)
Fin(n) == [k |-> "fin", v |-> n]
NaN == [k |-> "nan", v |-> 0]

\* a < b on floats: every comparison with nan is False
FloatLt(a, b) ==
    IF a.k = "nan" \/ b.k = "nan" THEN FALSE
    ELSE IF a.k = "inf" /\ b.k = "inf" THEN a.v < b.v
    ELSE IF a.k = "inf" THEN a.v < 0
    ELSE IF b.k = "inf" THEN b.v > 0
    ELSE a.v < b.v
\* a >= b on floats
FloatGe(a, b) == a.k # "nan" /\ b.k # "nan" /\ ~FloatLt(a, b)

\* min(max(confidence, 0.0), 1.0): the builtins max(a, b) and min(a, b) give
\* the first argument unless the second compares greater (less)
ClampConfidence(c) ==
    LET PyMax(a, b) == IF FloatLt(a, b) THEN b ELSE a
        PyMin(a, b) == IF FloatLt(b, a) THEN b ELSE a
    IN  PyMin(PyMax(c, Fin(0)), Fin(10))

\* the Intent enum's values
Intents == {"hot_lead", "competitor", "content_idea", "partnership", "noise"}

\* Python None where a Classification is expected
NoClassification == [intent |-> "none", confidence |-> Fin(0), reasoning |-> "none"]
Classification(intent, confidence, reasoning) ==
    [intent |-> intent, confidence |-> confidence, reasoning |-> reasoning]

\* what a call gave: a value it returned, or the exception it raised
Returns(value) == [exc |-> "none", value |-> value]
Raises(exc) == [exc |-> exc, value |-> NoClassification]
NotCalled == [exc |-> "not called", value |-> NoClassification]

\* the words a title or body is made of; None for the body of a link post
Words == {"Looking", "for", "hiring", "launched", "how", "to", "cat"}
NoText == <<"None">>

\* some of the keywords of the four signal lists of _rule_based_classify
Signals ==
    [hot_lead |-> {<<"looking", "for">>}, competitor |-> {<<"launched">>},
     partnership |-> {<<"hiring">>}, content_idea |-> {<<"how", "to">>}]

\* f"{title} {content}" with both parts lower-cased; a None body counts as ''
RuleText(p) ==
    LET lower(ws) == [i \in 1..Len(ws) |-> IF ws[i] = "Looking" THEN "looking" ELSE ws[i]]
    IN  lower(p.title) \o lower(IF p.selftext = NoText THEN <<>> ELSE p.selftext)

\* any(signal in text for signal in signals): the words of some signal stand
\* next to each other in the text
AnySignal(text, signals) ==
    \E s \in signals, i \in 1..Len(text) :
        /\ i + Len(s) - 1 <= Len(text)
        /\ SubSeq(text, i, i + Len(s) - 1) = s

\* a faulty variant, for sensitivity: competitor signals are looked at first
RuleBasedClassifyCompetitorFirst(p) ==
    IF AnySignal(RuleText(p), Signals.competitor)
      THEN Classification("competitor", Fin(6), "competitor keywords (rule-based)")
    ELSE IF AnySignal(RuleText(p), Signals.hot_lead)
      THEN Classification("hot_lead", Fin(6), "hot lead keywords (rule-based)")
    ELSE IF AnySignal(RuleText(p), Signals.partnership)
      THEN Classification("partnership", Fin(6), "partnership keywords (rule-based)")
    ELSE IF AnySignal(RuleText(p), Signals.content_idea)
      THEN Classification("content_idea", Fin(5), "content idea keywords (rule-based)")
    ELSE Classification("noise", Fin(4), "no strong signals (rule-based)")

\* Classifier._rule_based_classify
RuleBasedClassify(p) ==
    IF AnySignal(RuleText(p), Signals.hot_lead)
      THEN Classification("hot_lead", Fin(6), "hot lead keywords (rule-based)")
    ELSE IF AnySignal(RuleText(p), Signals.partnership)
      THEN Classification("partnership", Fin(6), "partnership keywords (rule-based)")
    ELSE IF AnySignal(RuleText(p), Signals.competitor)
      THEN Classification("competitor", Fin(6), "competitor keywords (rule-based)")
    ELSE IF AnySignal(RuleText(p), Signals.content_idea)
      THEN Classification("content_idea", Fin(5), "content idea keywords (rule-based)")
    ELSE Classification("noise", Fin(4), "no strong signals (rule-based)")

\* a field of the JSON object the provider's text holds: k is "missing",
\* "null", "array", "number" (its value f) or "string" (its text s)
Field(k, s, f) == [k |-> k, s |-> s, f |-> f]
Missing == Field("missing", "", Fin(0))

\* a JSON value: an "object" with its intent and confidence fields, or an "array"
Json(type, intent, confidence) == [type |-> type, intent |-> intent, confidence |-> confidence]
NoJson == Json("none", Missing, Missing)

\* the provider's text as its pieces: "fence" (three backticks), "json" (the
\* word after the fence), "newline", "value" (a JSON value), "junk" (other text)
Tok(t, v) == [t |-> t, v |-> v]

\* str.strip() on the pieces: line breaks at both ends go
StripTokens(ts) ==
    LET keep == {i \in 1..Len(ts) : ts[i].t # "newline"}
    IN  IF keep = {} THEN <<>>
        ELSE SubSeq(ts, CHOOSE i \in keep : \A j \in keep : i <= j,
                        CHOOSE i \in keep : \A j \in keep : i >= j)

\* _ai_classify's removal of a markdown code block around the JSON
RemoveCodeBlock(raw) ==
    LET nl == {i \in 1..Len(raw) : raw[i].t = "newline"}
        opened ==
            IF raw # <<>> /\ raw[1].t = "fence"
              THEN IF nl # {}
                     THEN SubSeq(raw, (CHOOSE i \in nl : \A j \in nl : i <= j) + 1, Len(raw))
                     ELSE Tail(raw)
              ELSE raw
        closed ==
            IF opened # <<>> /\ opened[Len(opened)].t = "fence"
              THEN SubSeq(opened, 1, Len(opened) - 1)
              ELSE opened
    IN  StripTokens(closed)

\* the labels a provider may write, and str.lower() of each
LabelLower ==
    ("HOT_LEAD" :> "hot_lead") @@ ("Partnership" :> "partnership")
      @@ ("noise" :> "noise") @@ ("SPAM" :> "spam")

\* the numbers a provider may write as text, and float() of each; float() of
\* any other text raises ValueError
FloatOfText == ("0.8" :> Fin(8)) @@ ("nan" :> NaN)

\* json.loads, Intent(data['intent'].lower()) and float(data['confidence']):
\* the exception the first failing step raises, or the two values
ParseResponse(text) ==
    LET fails(exc) == [exc |-> exc, intent |-> "none", confidence |-> Fin(0)]
        data == text[1].v
    IN  IF Len(text) # 1 \/ text[1].t # "value" THEN fails("JSONDecodeError")
        ELSE IF data.type # "object" THEN fails("TypeError")
        ELSE IF data.intent.k = "missing" THEN fails("KeyError")
        ELSE IF data.intent.k # "string" THEN fails("AttributeError")
        ELSE IF LabelLower[data.intent.s] \notin Intents THEN fails("ValueError")
        ELSE IF data.confidence.k = "missing" THEN fails("KeyError")
        ELSE IF data.confidence.k \in {"null", "array"} THEN fails("TypeError")
        ELSE IF data.confidence.k = "string" /\ data.confidence.s \notin DOMAIN FloatOfText
          THEN fails("ValueError")
        ELSE [exc |-> "none", intent |-> LabelLower[data.intent.s],
              confidence |-> IF data.confidence.k = "string"
                               THEN FloatOfText[data.confidence.s]
                               ELSE data.confidence.f]

\* except (json.JSONDecodeError, KeyError, ValueError) inside _ai_classify
ParseHandlerCatches(exc) == exc \in {"JSONDecodeError", "KeyError", "ValueError"}

\* Classifier._ai_classify; _get_client raises without an Anthropic key
AiClassify(cred, p, resp) ==
    IF cred # "anthropic" THEN Raises("ValueError")
    ELSE IF resp.kind = "error" THEN Raises("APIError")
    ELSE LET parsed == ParseResponse(RemoveCodeBlock(StripTokens(resp.text)))
         IN  IF parsed.exc = "none"
               THEN Returns(Classification(parsed.intent,
                                           ClampConfidence(parsed.confidence),
                                           "reasoning of the provider"))
             ELSE IF ParseHandlerCatches(parsed.exc) THEN Returns(RuleBasedClassify(p))
             ELSE Raises(parsed.exc)

\* a faulty variant, for sensitivity: classify catches what the parser's handler catches
ClassifyCatchesParseErrors(exc) == exc \in {"JSONDecodeError", "KeyError", "ValueError"}

\* except Exception in classify
ClassifyCatches(exc) == TRUE

\* Classifier.classify
Classify(cred, p, resp) ==
    IF cred = "none" THEN Returns(RuleBasedClassify(p))
    ELSE LET r == AiClassify(cred, p, resp)
         IN  IF r.exc = "none" THEN r
             ELSE IF ClassifyCatches(r.exc) THEN Returns(RuleBasedClassify(p))
             ELSE r

\* the settings' AI credentials: none, an Anthropic key, an OpenAI key only
Credentials == {"none", "anthropic", "openai"}

NoPost == [id |-> "none", title |-> <<>>, selftext |-> NoText, subreddit |-> "none",
           score |-> 0, num_comments |-> 0]
\* the posts classify is applied to: a title of up to MaxTitleWords words and a body
ClassifierPosts ==
    { [id |-> "p1", title |-> t, selftext |-> b, subreddit |-> "python",
       score |-> 5, num_comments |-> 2] :
         t \in UNION { [1..n -> Words] : n \in 0..MaxTitleWords },
         b \in {NoText, <<>>, <<"for">>, <<"launched">>} }

NoResponse == [kind |-> "none", text |-> <<>>]
\* what the provider may answer: a JSON value alone, in a code block, in a
\* fence on one line, in a block with text after it; text that is no JSON;
\* or the request fails
Responses ==
    LET intents == {Missing, Field("number", "", Fin(1))}
                     \cup { Field("string", s, Fin(0)) : s \in DOMAIN LabelLower }
        confidences ==
            {Missing, Field("null", "", Fin(0)), Field("array", "", Fin(0))}
            \cup { Field("string", s, Fin(0)) : s \in {"high", "0.8", "nan"} }
            \cup { Field("number", "", f) :
                     f \in {NaN, [k |-> "inf", v |-> 1], [k |-> "inf", v |-> -1]}
                           \cup { Fin(n) : n \in {-5, 0, 5, 8, 10, 15} } }
        values == { Json("object", i, c) : i \in intents, c \in confidences }
                    \cup {Json("array", Missing, Missing)}
        fence == Tok("fence", NoJson)
        word == Tok("json", NoJson)
        newline == Tok("newline", NoJson)
        junk == Tok("junk", NoJson)
        wrappings(v) ==
            { <<Tok("value", v)>>,
              <<fence, word, newline, Tok("value", v), newline, fence>>,
              <<fence, Tok("value", v), fence, newline>>,
              <<fence, word, newline, Tok("value", v), newline, fence, junk>> }
    IN  { [kind |-> "text", text |-> w] : w \in UNION { wrappings(v) : v \in values } }
        \cup { [kind |-> "text", text |-> <<junk>>], [kind |-> "error", text |-> <<>>] }

\* classify without any credential: the provider is never asked
ClassifyUnavailable ==
    /\ classified = NotCalled
    /\ credential = "none"
    /\ classified' = Classify(credential, post, response)
    /\ UNCHANGED <<now, store_vars, scan_vars, tg_vars, bot_vars, comments,
                   last_post_time, call, accepted, credential, post, response,
                   config, score, generated, found, results, notifications, run,
                   search>>

\* classify with a credential: _ai_classify, and the fallback when it raises
ClassifyAi ==
    /\ classified = NotCalled
    /\ credential # "none"
    /\ classified' = Classify(credential, post, response)
    /\ UNCHANGED <<now, store_vars, scan_vars, tg_vars, bot_vars, comments,
                   last_post_time, call, accepted, credential, post, response,
                   config, score, generated, found, results, notifications, run,
                   search>>

\* ---------------------------------------------------------------- scoring

\* a key the configuration file does not hold
Unset == -1
\* the default of notification.max_posts_per_category
DefaultMaxPosts == 5

\* config['subreddit_preferences']: community -> its preferences, boosts in
\* tenths; and notification.max_posts_per_category
NoPreferences == [sub \in {} |-> [priority_boost |-> Unset]]
Config(prefs, max_posts) ==
    [subreddit_preferences |-> prefs, max_posts_per_category |-> max_posts]
NoConfig == Config(NoPreferences, Unset)

\* a faulty variant, for sensitivity: a community without a boost counts for nothing
PriorityBoostNoDefault(cfg, sub) ==
    IF sub \in DOMAIN cfg.subreddit_preferences
         /\ cfg.subreddit_preferences[sub].priority_boost # Unset
      THEN cfg.subreddit_preferences[sub].priority_boost
      ELSE 0

\* subreddit_prefs.get(subreddit, {}).get('priority_boost', 1.0), in tenths
PriorityBoost(cfg, sub) ==
    IF sub \in DOMAIN cfg.subreddit_preferences
         /\ cfg.subreddit_preferences[sub].priority_boost # Unset
      THEN cfg.subreddit_preferences[sub].priority_boost
      ELSE 10

\* score_post's intent boost, in hundredths (the confidence is in tenths)
IntentBoost(c) ==
    IF c = NoClassification THEN 100
    ELSE IF c.intent = "hot_lead" THEN 20 * c.confidence.v
    ELSE IF c.intent = "partnership" THEN 15 * c.confidence.v
    ELSE IF c.intent = "content_idea" THEN 12 * c.confidence.v
    ELSE 100

\* score_post, in thousandths
ScorePost(p, cfg, c) ==
    LET base_score == p.score + (p.num_comments * 2)
    IN  base_score * PriorityBoost(cfg, p.subreddit) * IntentBoost(c)

NoScore == [called |-> FALSE, value |-> 0]

\* the posts score_post is applied to; "other" is a community the
\* configuration may not mention
ScoredPosts ==
    { [id |-> "p1", title |-> <<"cat">>, selftext |-> NoText, subreddit |-> sub,
       score |-> s, num_comments |-> n] :
         sub \in {"python", "startups", "other"}, s \in {0, 5, 10}, n \in {0, 2, 3} }
\* the classifications a post may come with
Classifications ==
    { Classification(i, Fin(c), "reasoning of the provider") :
        i \in Intents, c \in {0, 4, 5, 9, 10} }

\* one call of score_post(post, config, classification)
ScorePostCall ==
    /\ ~score.called
    /\ score' = [called |-> TRUE, value |-> ScorePost(post, config, classified.value)]
    /\ UNCHANGED <<now, store_vars, scan_vars, tg_vars, bot_vars, comments,
                   last_post_time, call, accepted, credential, post, response,
                   classified, config, generated, found, results, notifications, run,
                   search>>

\* ------------------------------------------------------- draft generator

\* Classification.is_actionable
IsActionable(c) ==
    c.intent \in {"hot_lead", "partnership"} /\ FloatGe(c.confidence, Fin(5))

\* the gates of generate_response before the provider is asked: TRUE when it
\* returns None at once.  is_available is bool(settings.ai.anthropic_api_key)
Declines(c, cred) ==
    \/ c.intent = "noise"
    \/ c.intent = "competitor"
    \/ FloatLt(c.confidence, Fin(5))
    \/ cred # "anthropic"

NoDraftResponse == [content |-> "None", post_id |-> "none", intent |-> "none"]
NoGeneration == [called |-> FALSE, draft |-> NoDraftResponse, requests |-> 0]

\* generate_response returned None before client.messages.create
GenerateDeclines ==
    /\ ~generated.called
    /\ classified.exc = "none"
    /\ Declines(classified.value, credential)
    /\ generated' = [called |-> TRUE, draft |-> NoDraftResponse, requests |-> 0]
    /\ UNCHANGED <<now, store_vars, scan_vars, tg_vars, bot_vars, comments,
                   last_post_time, call, accepted, credential, post, response,
                   classified, config, score, found, results, notifications, run,
                   search>>

\* generate_response asked the provider: the text becomes the draft, an
\* exception gives None
GenerateRequests ==
    /\ ~generated.called
    /\ classified.exc = "none"
    /\ ~Declines(classified.value, credential)
    /\ \E ok \in BOOLEAN :
          generated' = [called |-> TRUE,
                        draft |-> IF ok THEN [content |-> "generated reply",
                                              post_id |-> post.id,
                                              intent |-> classified.value.intent]
                                  ELSE NoDraftResponse,
                        requests |-> 1]
    /\ UNCHANGED <<now, store_vars, scan_vars, tg_vars, bot_vars, comments,
                   last_post_time, call, accepted, credential, post, response,
                   classified, config, score, found, results, notifications, run,
                   search>>

\* --------------------------------------------------------------- run_scan

\* config['categories'], in the order of the file
CategoryKeys == <<"leads", "partners">>

\* classified_posts of one category: search_category's unique posts (up to
\* MaxFound of them, ids in the order returned), each with its score and
\* what classify said about it
ClassifiedPosts(key) ==
    LET ids == ("leads" :> <<"a1", "a2", "a3", "a4">>)
                 @@ ("partners" :> <<"b1", "b2", "b3", "b4">>)
        kinds ==
            { [score |-> 5, classification |-> Classification("hot_lead", Fin(9), "reasoning of the provider")],
              [score |-> 30, classification |-> Classification("hot_lead", Fin(9), "reasoning of the provider")],
              [score |-> 5, classification |-> Classification("partnership", Fin(6), "reasoning of the provider")],
              [score |-> 30, classification |-> Classification("noise", Fin(4), "no strong signals (rule-based)")] }
    IN  UNION { { [i \in 1..n |->
                     [post |-> [id |-> ids[key][i], title |-> <<"cat">>,
                                selftext |-> NoText, subreddit |-> "python",
                                score |-> f[i].score, num_comments |-> 2],
                      classification |-> f[i].classification]] :
                  f \in [1..n -> kinds] } :
                n \in 0..MaxFound }

\* a faulty variant, for sensitivity: among equal scores the later post comes first
TopPostsLastSeenFirst(entries, cfg) ==
    LET n == Len(entries)
        s(i) == ScorePost(entries[i].post, cfg, entries[i].classification)
        before(i) == Cardinality({ j \in 1..n : s(j) > s(i) \/ (s(j) = s(i) /\ j > i) })
        sorted == [r \in 1..n |-> entries[CHOOSE i \in 1..n : before(i) = r - 1]]
        max_posts == IF cfg.max_posts_per_category = Unset THEN DefaultMaxPosts
                     ELSE cfg.max_posts_per_category
    IN  SubSeq(sorted, 1, IF n < max_posts THEN n ELSE max_posts)

\* top_posts: scored_posts.sort(reverse=True, key=score) (highest score first,
\* posts of equal score in the order they had), then scored_posts[:max_posts]
\* with max_posts = config.get('notification', {}).get('max_posts_per_category', 5)
TopPosts(entries, cfg) ==
    LET n == Len(entries)
        s(i) == ScorePost(entries[i].post, cfg, entries[i].classification)
        before(i) == Cardinality({ j \in 1..n : s(j) > s(i) \/ (s(j) = s(i) /\ j < i) })
        sorted == [r \in 1..n |-> entries[CHOOSE i \in 1..n : before(i) = r - 1]]
        max_posts == IF cfg.max_posts_per_category = Unset THEN DefaultMaxPosts
                     ELSE cfg.max_posts_per_category
    IN  SubSeq(sorted, 1, IF n < max_posts THEN n ELSE max_posts)

\* all the kept results, category after category
AllResults(res) == res[CategoryKeys[1]] \o res[CategoryKeys[2]]

\* run_scan's stats: total_posts and hot_leads
TotalPosts(res) == Len(AllResults(res))
HotLeads(res) ==
    Cardinality({ i \in 1..Len(AllResults(res)) :
                    AllResults(res)[i].classification.intent = "hot_lead" })

\* a faulty variant, for sensitivity: one hot lead is not yet high priority
PriorityForLate(hot_leads) ==
    IF hot_leads >= 3 THEN "urgent"
    ELSE IF hot_leads >= 2 THEN "high"
    ELSE "normal"

\* run_scan's choice of the notification's priority
PriorityFor(hot_leads) ==
    IF hot_leads >= 3 THEN "urgent"
    ELSE IF hot_leads >= 1 THEN "high"
    ELSE "normal"

NoResults == [k \in {"leads", "partners"} |-> <<>>]
NoRun == [pc |-> "none", classify |-> FALSE, respond |-> FALSE, dry_run |-> FALSE,
          telegram |-> FALSE, next |-> 1, drafts |-> {}, at |-> 0, sent |-> 0]

\* run_scan, one category of the loop: search, classify, score, sort, keep the top
RunCategory ==
    /\ run.pc = "categories"
    /\ run.next <= Len(CategoryKeys)
    /\ results' = [results EXCEPT ![CategoryKeys[run.next]] =
                      TopPosts(found[CategoryKeys[run.next]], config)]
    /\ run' = [run EXCEPT !.next = run.next + 1]
    /\ UNCHANGED <<now, store_vars, scan_vars, tg_vars, bot_vars, comments,
                   last_post_time, call, accepted, credential, post, response,
                   classified, config, score, generated, found, notifications,
                   search>>

\* run_scan after the loop: generate_responses for the kept results when
\* respond and classify are set: a draft for each actionable post whose
\* generation did not fail
RunGenerate ==
    /\ run.pc = "categories"
    /\ run.next > Len(CategoryKeys)
    /\ LET all == AllResults(results)
           actionable == { all[i].post.id : i \in { j \in 1..Len(all) :
                                                      IsActionable(all[j].classification) } }
       IN  IF run.respond /\ run.classify /\ credential = "anthropic"
             THEN \E failed \in SUBSET actionable :
                     run' = [run EXCEPT !.pc = "send", !.drafts = actionable \ failed]
             ELSE run' = [run EXCEPT !.pc = "send"]
    /\ UNCHANGED <<now, store_vars, scan_vars, tg_vars, bot_vars, comments,
                   last_post_time, call, accepted, credential, post, response,
                   classified, config, score, generated, found, results, notifications,
                   search>>

\* a faulty variant, for sensitivity: a dry run sends its drafts for approval too
ReachesStoreInDryRun(r) == r.drafts # {} /\ r.telegram

\* run_scan's `if drafts and not dry_run` and send_drafts_for_approval's
\* `if not settings.telegram: return 0`: TRUE when the loop over the drafts runs
ReachesStore(r) == r.drafts # {} /\ ~r.dry_run /\ r.telegram

\* the drafts of the run in the order generate_responses made them: the order
\* of the kept results
DraftsInOrder ==
    SelectSeq(AllResults(results), LAMBDA x : x.post.id \in run.drafts)

\* send_drafts_for_approval, one draft of the loop: a processed post is passed
\* over, any other is saved (save_draft) and sent with its buttons
RunSendDraft ==
    /\ run.pc = "send"
    /\ ReachesStore(run)
    /\ run.at < Len(DraftsInOrder)
    /\ LET x == DraftsInOrder[run.at + 1]
           payload == [content |-> "generated reply",
                       intent |-> x.classification.intent,
                       confidence |-> x.classification.confidence.v]
       IN  IF IsPostProcessed(drafts, x.post.id)
             THEN /\ run' = [run EXCEPT !.at = run.at + 1]
                  /\ UNCHANGED store_vars
           ELSE IF SelectExisting(drafts, x.post.id) # NoDraft
             THEN /\ drafts' = UpdateOnRescan(drafts, x.post.id, payload, now)
                  /\ run' = [run EXCEPT !.at = run.at + 1, !.sent = run.sent + 1]
                  /\ UNCHANGED next_draft_id
           ELSE /\ drafts' = drafts \cup {NewRow(IdPool[next_draft_id], x.post.id, payload, now)}
                /\ next_draft_id' = next_draft_id + 1
                /\ run' = [run EXCEPT !.at = run.at + 1, !.sent = run.sent + 1]
    /\ UNCHANGED <<now, scan_vars, tg_vars, bot_vars, comments,
                   last_post_time, call, accepted, credential, post, response,
                   classified, config, score, generated, found, results, notifications,
                   search>>

\* run_scan goes on to the summary: nothing was to be sent, or the loop is through
RunSendEnds ==
    /\ run.pc = "send"
    /\ ~ReachesStore(run) \/ run.at = Len(DraftsInOrder)
    /\ run' = [run EXCEPT !.pc = "notify"]
    /\ UNCHANGED <<now, store_vars, scan_vars, tg_vars, bot_vars, comments,
                   last_post_time, call, accepted, credential, post, response,
                   classified, config, score, generated, found, results, notifications,
                   search>>

\* run_scan: total_posts > 0, the summary notification is built and sent
RunNotify ==
    /\ run.pc = "notify"
    /\ TotalPosts(results) > 0
    /\ notifications' = Append(notifications,
                           [total_posts |-> TotalPosts(results),
                            hot_leads |-> HotLeads(results),
                            drafts |-> Cardinality(run.drafts),
                            priority |-> PriorityFor(HotLeads(results))])
    /\ run' = [run EXCEPT !.pc = "done"]
    /\ UNCHANGED <<now, store_vars, scan_vars, tg_vars, bot_vars, comments,
                   last_post_time, call, accepted, credential, post, response,
                   classified, config, score, generated, found, results,
                   search>>

\* run_scan: nothing was found, nothing is sent
RunEndsSilent ==
    /\ run.pc = "notify"
    /\ TotalPosts(results) = 0
    /\ run' = [run EXCEPT !.pc = "done"]
    /\ UNCHANGED <<now, store_vars, scan_vars, tg_vars, bot_vars, comments,
                   last_post_time, call, accepted, credential, post, response,
                   classified, config, score, generated, found, results, notifications,
                   search>>

\* -------------------------------------------------------- search_category

NoSearch == [pc |-> "none", queries |-> 0, all_posts |-> <<>>, unique |-> <<>>]

\* what client.search_posts may return for one keyword in one community: up to
\* MaxFound posts with different ids; a post's counters are those of the
\* moment of the request
SearchHits ==
    LET hits == { [id |-> i, score |-> c[1], num_comments |-> c[2]] :
                    i \in {"a1", "a2"},
                    c \in {<<5, 2>>, <<9, 2>>, <<4, 2>>, <<9, 1>>} }
    IN  UNION { { f \in [1..n -> hits] :
                    \A a, b \in 1..n : a # b => f[a].id # f[b].id } :
                n \in 0..MaxFound }

\* filtered_posts: score >= min_score and num_comments >= min_comments
FilterByEngagement(posts) ==
    SelectSeq(posts, LAMBDA p : p.score >= MinScore /\ p.num_comments >= MinComments)

\* list({p['id']: p for p in all_posts}.values()): a dict keeps a key at the
\* place of its first insertion, and a later assignment replaces its value
UniquePosts(all_posts) ==
    LET n == Len(all_posts)
        firsts == SelectSeq([i \in 1..n |-> i],
                      LAMBDA i : \A j \in 1..(i - 1) : all_posts[j].id # all_posts[i].id)
        last(id) == CHOOSE j \in 1..n :
                       /\ all_posts[j].id = id
                       /\ \A k \in (j + 1)..n : all_posts[k].id # id
    IN  [r \in 1..Len(firsts) |-> all_posts[last(all_posts[firsts[r]].id)]]

\* search_category, one keyword in one community: search_posts, the filter,
\* all_posts.extend; a search that raises is logged and adds nothing
SearchQuery ==
    /\ search.pc = "searching"
    /\ search.queries < MaxQueries
    /\ \E raised \in BOOLEAN, posts \in SearchHits :
          search' = [search EXCEPT
                       !.queries = search.queries + 1,
                       !.all_posts = IF raised THEN search.all_posts
                                     ELSE search.all_posts \o FilterByEngagement(posts)]
    /\ UNCHANGED <<now, store_vars, scan_vars, tg_vars, bot_vars, comments,
                   last_post_time, call, accepted, credential, post, response,
                   classified, config, score, generated, found, results,
                   notifications, run>>

\* search_category after the loops: the deduplication, and the return
SearchReturns ==
    /\ search.pc = "searching"
    /\ search.queries = MaxQueries
    /\ search' = [search EXCEPT !.pc = "done", !.unique = UniquePosts(search.all_posts)]
    /\ UNCHANGED <<now, store_vars, scan_vars, tg_vars, bot_vars, comments,
                   last_post_time, call, accepted, credential, post, response,
                   classified, config, score, generated, found, results,
                   notifications, run>>

\* no classification, scoring, generation or scan run is going on
RadarIdle ==
    /\ credential = "none"
    /\ post = NoPost
    /\ response = NoResponse
    /\ classified = NotCalled
    /\ config = NoConfig
    /\ score = NoScore
    /\ generated = NoGeneration
    /\ found = NoResults
    /\ results = NoResults
    /\ notifications = <<>>
    /\ run = NoRun
    /\ search = NoSearch

\* the state after ApprovalBot.__init__, RedditClient not yet built, no scan running
InitProcesses ==
    /\ now = 0
    /\ scan = [sc \in Scanners |-> IdleScan]
    /\ saves = 0
    /\ updates = <<>>
    /\ next_update_id = 1
    /\ last_update_id = 0
    /\ pending_edits = [c \in Chats |-> NoDraft]
    /\ last_comment_time = NoTime
    /\ batch = <<>>
    /\ pc = "loop"
    /\ cur = NoUpdate
    /\ draft = NoRow
    /\ result = NoComment
    /\ outcome = "none"
    /\ handler_calls = <<>>
    /\ comments = <<>>
    /\ crashes = 0
    /\ last_post_time = [sub \in Subreddits |-> NoTime]
    /\ call = NoCall
    /\ accepted = <<>>

\* the store a finished scan left: two drafts sent for approval
ScannedStore ==
    { NewRow("d1", "p1", [content |-> "gen1", intent |-> "hot_lead", confidence |-> 9], 0),
      NewRow("d2", "p2", [content |-> "gen2", intent |-> "partnership", confidence |-> 6], 0) }

Init ==
    /\ InitProcesses
    /\ RadarIdle
    /\ drafts = ScannedStore
    /\ next_draft_id = 3

InitEmpty ==
    /\ InitProcesses
    /\ RadarIdle
    /\ drafts = {}
    /\ next_draft_id = 1

Next ==
    \/ Cleanup
    \/ Tick
    \/ Human(InboundEvents)
    \/ GetUpdates
    \/ CallbackMalformed
    \/ CallbackNotFound
    \/ CallbackUnknown
    \/ CallbackPost
    \/ CallbackEdit
    \/ CallbackSkip
    \/ PostCallFails
    \/ PostCallOk
    \/ PostRecord
    \/ MessageNoMarker
    \/ MessageCancel
    \/ MessageDraftGone
    \/ MessageEdit
    \/ EditCallFails
    \/ EditCallOk
    \/ EditRecord
    \/ Crash

Spec == Init /\ [][Next]_vars

NextPipeline ==
    \/ ScanRead("s1", {"p1"})
    \/ ScanWrite("s1")
    \/ ScanSend("s1")
    \/ Tick
    \/ Human(PipelineEvents)
    \/ GetUpdates
    \/ CallbackNotFound
    \/ CallbackPost
    \/ CallbackEdit
    \/ CallbackSkip
    \/ PostCallFails
    \/ PostCallOk
    \/ PostRecord
    \/ MessageNoMarker
    \/ MessageEdit
    \/ EditCallFails
    \/ EditCallOk
    \/ EditRecord

SpecPipeline == InitEmpty /\ [][NextPipeline]_vars

NextStore ==
    \/ \E sc \in Scanners : ScanRead(sc, PostIds)
    \/ \E sc \in Scanners : ScanWrite(sc)
    \/ \E sc \in Scanners : ScanSend(sc)
    \/ StoreUpdateStatus
    \/ StoreUpdateContent
    \/ Cleanup
    \/ Tick

SpecStore == InitEmpty /\ [][NextStore]_vars

NextClient ==
    \/ ClientCreatePost
    \/ ClientCreateComment
    \/ ClientReplyToComment
    \/ ClientSearchPosts
    \/ Tick

SpecClient == InitEmpty /\ [][NextClient]_vars

\* a post, the settings' credentials and the provider's answer, before classify
InitClassifier ==
    /\ InitProcesses
    /\ drafts = {}
    /\ next_draft_id = 1
    /\ credential \in Credentials
    /\ post \in ClassifierPosts
    /\ response \in IF credential = "anthropic" THEN Responses ELSE {NoResponse}
    /\ classified = NotCalled
    /\ config = NoConfig
    /\ score = NoScore
    /\ generated = NoGeneration
    /\ found = NoResults
    /\ results = NoResults
    /\ notifications = <<>>
    /\ run = NoRun
    /\ search = NoSearch

NextClassifier ==
    \/ ClassifyUnavailable
    \/ ClassifyAi

SpecClassifier == InitClassifier /\ [][NextClassifier]_vars

\* a post, a configuration and a classification (or none), before score_post
InitScore ==
    /\ InitProcesses
    /\ drafts = {}
    /\ next_draft_id = 1
    /\ credential = "none"
    /\ post \in ScoredPosts
    /\ response = NoResponse
    /\ classified \in {NotCalled} \cup { Returns(c) : c \in Classifications }
    /\ config \in { Config(prefs, Unset) :
                     prefs \in { NoPreferences,
                                 ("python" :> [priority_boost |-> 15])
                                   @@ ("startups" :> [priority_boost |-> Unset]),
                                 ("python" :> [priority_boost |-> 20])
                                   @@ ("other" :> [priority_boost |-> 5]) } }
    /\ score = NoScore
    /\ generated = NoGeneration
    /\ found = NoResults
    /\ results = NoResults
    /\ notifications = <<>>
    /\ run = NoRun
    /\ search = NoSearch

NextScore == ScorePostCall

SpecScore == InitScore /\ [][NextScore]_vars

\* a post, its classification and the settings, before generate_response
InitResponder ==
    /\ InitProcesses
    /\ drafts = {}
    /\ next_draft_id = 1
    /\ credential \in Credentials
    /\ post \in { p \in ScoredPosts : p.score = 5 /\ p.num_comments = 2 }
    /\ response = NoResponse
    /\ classified \in { Returns(c) : c \in Classifications }
    /\ config = NoConfig
    /\ score = NoScore
    /\ generated = NoGeneration
    /\ found = NoResults
    /\ results = NoResults
    /\ notifications = <<>>
    /\ run = NoRun
    /\ search = NoSearch

NextResponder ==
    \/ GenerateDeclines
    \/ GenerateRequests

SpecResponder == InitResponder /\ [][NextResponder]_vars

\* run_scan with its flags, its configuration and what the searches will find
InitScan ==
    /\ InitProcesses
    /\ drafts = {}
    /\ next_draft_id = 1
    /\ credential = "anthropic"
    /\ post = NoPost
    /\ response = NoResponse
    /\ classified = NotCalled
    /\ config \in { Config(NoPreferences, m) : m \in {1, Unset} }
    /\ score = NoScore
    /\ generated = NoGeneration
    /\ found \in [{"leads", "partners"} -> ClassifiedPosts("leads") \cup ClassifiedPosts("partners")]
    /\ \A k \in {"leads", "partners"} : found[k] \in ClassifiedPosts(k)
    /\ results = NoResults
    /\ notifications = <<>>
    /\ run \in { [pc |-> "categories", classify |-> f[1], respond |-> f[2],
                    dry_run |-> f[3], telegram |-> f[4], next |-> 1, drafts |-> {},
                    at |-> 0, sent |-> 0] :
                  f \in { <<TRUE, TRUE, FALSE, TRUE>>, <<TRUE, TRUE, TRUE, TRUE>>,
                          <<TRUE, TRUE, FALSE, FALSE>>, <<TRUE, FALSE, FALSE, TRUE>>,
                          <<FALSE, TRUE, FALSE, TRUE>> } }
    /\ search = NoSearch

NextScan ==
    \/ RunCategory
    \/ RunGenerate
    \/ RunSendDraft
    \/ RunSendEnds
    \/ RunNotify
    \/ RunEndsSilent

SpecScan == InitScan /\ [][NextScan]_vars

\* search_category at its start, on a category with MaxQueries keyword x
\* community pairs
InitSearch ==
    /\ InitProcesses
    /\ drafts = {}
    /\ next_draft_id = 1
    /\ credential = "none"
    /\ post = NoPost
    /\ response = NoResponse
    /\ classified = NotCalled
    /\ config = NoConfig
    /\ score = NoScore
    /\ generated = NoGeneration
    /\ found = NoResults
    /\ results = NoResults
    /\ notifications = <<>>
    /\ run = NoRun
    /\ search = [NoSearch EXCEPT !.pc = "searching"]

NextSearch ==
    \/ SearchQuery
    \/ SearchReturns

SpecSearch == InitSearch /\ [][NextSearch]_vars

\* ------------------------------------------------------------ properties

\* the reply was sent while handling a press of the draft's own post button
CausedByPostButton(c) ==
    /\ c.cause.kind = "callback"
    /\ ColonAt(c.cause.data) # 0
    /\ ActionOf(c.cause.data) = <<"post">>
    /\ DraftIdOf(c.cause.data) = c.draft_id

\* the reply was sent while handling a text message for which a pending-edit
\* marker naming the draft existed
CausedByReplacementText(c) ==
    /\ c.cause.kind = "message"
    /\ c.marker # NoDraft
    /\ c.marker = c.draft_id

\* C1: every reply the platform received was submitted while handling a human
\* approval event for that draft (its post button, or replacement text received
\* while a pending-edit marker existed), and no step of the scan path submits a
\* reply.
C1_RepliesNeedApproval ==
    /\ [](\A i \in 1..Len(comments) :
             CausedByPostButton(comments[i]) \/ CausedByReplacementText(comments[i]))
    /\ [][scan' # scan => comments' = comments]_vars

\* C1 witness: a scan saved a draft and the platform holds a reply that was
\* sent for replacement text.
C1_Witness ==
    /\ drafts # {}
    /\ \E i \in 1..Len(comments) : CausedByReplacementText(comments[i])

\* C2 (as claimed): when the post handler holds a draft whose status is already
\* `posted`, it does not call the platform posting operation again.
C2_PostedIsNotPostedAgain ==
    [][(pc = "post_call" /\ draft.status = "posted") => comments' = comments]_vars

\* C3 (as claimed): a post button pressed for a draft that skip has set to
\* `rejected` is a no-op: nothing is submitted and the store does not change.
C3_PostAfterSkipIsNoOp ==
    [][(pc \in {"post_call", "post_record"} /\ draft.status = "rejected" /\ pc' # pc)
         => (comments' = comments /\ drafts' = drafts)]_vars

\* the transitions of the approval state machine
AllowedTransitions ==
    { <<"pending", "posted">>, <<"pending", "rejected">>, <<"pending", "edited">>,
      <<"edited", "posted">> }

\* C4 (as claimed): under approval events a draft's status changes only along
\* pending->posted, pending->rejected, pending->edited and edited->posted.
C4_OnlyStateMachineTransitions ==
    [][\A r \in drafts, q \in drafts' :
          (r.id = q.id /\ r.status # q.status)
             => <<r.status, q.status>> \in AllowedTransitions]_vars

\* C5 (as claimed): re-delivery of a button event after a crash submits nothing
\* more than processing the event once: one event accounts for at most one reply.
C5_RedeliveryIsIdempotent ==
    \A i, j \in 1..Len(comments) :
       (comments[i].cause.kind = "callback"
          /\ comments[i].cause.update_id = comments[j].cause.update_id) => i = j

\* C6 (as claimed): while the handler of an update is still running, the poll
\* cursor is below that update's id.
C6_CursorBehindRunningHandler ==
    pc # "loop" => last_update_id < cur.update_id

\* C7: the store never holds two draft rows for the same post, whatever two
\* writers do with save_draft, update_status, update_content and
\* cleanup_old_drafts.
C7_OneRowPerPost ==
    \A r \in drafts, q \in drafts : r.post_id = q.post_id => r = q

\* C7 witness: a writer whose SELECT found no row is about to INSERT while the
\* other writer has already inserted a row for the same post.
C7_Witness ==
    \E sc \in Scanners :
       /\ scan[sc].pc = "write"
       /\ scan[sc].existing = NoDraft
       /\ RowsByPost(drafts, scan[sc].post_id) # {}

\* C8: a save_draft that writes to a post which already has a row leaves
\* exactly one row for the post, carrying the saved content, intent and
\* confidence, with status `pending`.
C8_RescanResetsToPending ==
    [][\A sc \in Scanners :
          (/\ scan[sc].pc = "write"
           /\ scan'[sc].pc = "send"
           /\ RowsByPost(drafts, scan[sc].post_id) # {})
          => \E r \in drafts' :
                /\ RowsByPost(drafts', scan[sc].post_id) = {r}
                /\ r.content = scan[sc].payload.content
                /\ r.intent = scan[sc].payload.intent
                /\ r.confidence = scan[sc].payload.confidence
                /\ r.status = "pending"]_vars

\* C8 witness: save_draft has just rewritten a row whose status was `posted`.
C8_Witness ==
    \E sc \in Scanners :
       /\ scan[sc].pc = "send"
       /\ scan[sc].prev = "posted"
       /\ \E r \in RowsByPost(drafts, scan[sc].post_id) :
             r.status = "pending" /\ r.content = scan[sc].payload.content

\* C9: when the platform call fails while the post button is handled, the
\* handler returns leaving the store (status, content, posted_at, comment id)
\* and the platform's replies as they were.
C9_FailedPostChangesNothing ==
    [][(pc = "post_call" /\ pc' = "loop" /\ crashes' = crashes)
         => (drafts' = drafts /\ comments' = comments)]_vars

\* C9 witness: the post handler reported a failed platform call and the draft
\* it was handling is still the pending row it read.
C9_Witness ==
    /\ outcome = "rate_limited"
    /\ draft.id # NoDraft
    /\ draft.status = "pending"
    /\ GetDraft(drafts, draft.id) = draft

\* C10: a draft whose status is `posted` has posted_at and the platform's
\* comment id set, and the platform holds the reply with that id on the draft's
\* post.
C10_PostedHasIdAndTime ==
    \A r \in drafts :
       r.status = "posted"
          => /\ r.posted_at # NoTime
             /\ r.reddit_comment_id # NoComment
             /\ \E i \in 1..Len(comments) :
                   /\ comments[i].comment_id = r.reddit_comment_id
                   /\ comments[i].post_id = r.post_id

\* C10 witness: a draft was posted with replacement text.
C10_Witness ==
    \E r \in drafts : r.status = "posted" /\ r.content = "my own reply"

\* run() hands the next update of the batch to its handler in this step
HandlerStarts ==
    /\ pc = "loop"
    /\ batch # <<>>
    /\ cur' = Head(batch)
    /\ last_update_id' = Head(batch).update_id
    /\ batch' = Tail(batch)

\* the update is a press of the button `a` of some draft
IsButton(u, a) ==
    /\ u.kind = "callback"
    /\ ColonAt(u.data) # 0
    /\ ActionOf(u.data) = <<a>>

\* C11: handling edit:<id> for a draft that exists records the pending-edit
\* marker for the configured chat and finishes without changing any draft row
\* and without submitting anything.
C11_EditRequestOnlyMarks ==
    [][(/\ HandlerStarts
        /\ IsButton(Head(batch), "edit")
        /\ RowsById(drafts, DraftIdOf(Head(batch).data)) # {})
         => /\ drafts' = drafts
            /\ comments' = comments
            /\ pending_edits' = [pending_edits EXCEPT
                                    ![ConfiguredChat] = DraftIdOf(Head(batch).data)]
            /\ pc' = "loop"]_vars

\* C11 witness: the edit button of a pending draft has been handled: the marker
\* names the draft and the row is as the scan saved it.
C11_Witness ==
    /\ outcome = "edit_mode"
    /\ pending_edits[ConfiguredChat] = "d1"
    /\ \E r \in drafts : r.id = "d1" /\ r.status = "pending" /\ r.content = "gen1"

\* C12: handling skip:<id> for a draft that exists sets the row's status to
\* `rejected` and finishes in the same step, with no reply submitted.
C12_SkipRejectsWithoutPosting ==
    [][(/\ HandlerStarts
        /\ IsButton(Head(batch), "skip")
        /\ RowsById(drafts, DraftIdOf(Head(batch).data)) # {})
         => /\ \A r \in RowsById(drafts', DraftIdOf(Head(batch).data)) :
                  r.status = "rejected"
            /\ RowsById(drafts', DraftIdOf(Head(batch).data)) # {}
            /\ comments' = comments
            /\ pc' = "loop"]_vars

\* C12 witness: the skip button has been handled and the draft is rejected while
\* the platform holds no reply for it.
C12_Witness ==
    /\ outcome = "skipped"
    /\ \E r \in RowsById(drafts, DraftIdOf(cur.data)) : r.status = "rejected"
    /\ \A i \in 1..Len(comments) : comments[i].draft_id # DraftIdOf(cur.data)
\* the update is a text message from a chat that has a pending-edit marker
IsTextUnderMarker(u) ==
    /\ u.kind = "message"
    /\ pending_edits[u.chat] # NoDraft

\* C13: when a chat with a pending-edit marker sends /cancel, in any case and
\* with surrounding whitespace, the handler removes the marker and finishes
\* without submitting a reply and without changing any draft row.
C13_CancelClearsMarkerOnly ==
    [][(/\ HandlerStarts
        /\ IsTextUnderMarker(Head(batch))
        /\ Lower(Strip(Chars(Head(batch).text))) = Chars("/cancel"))
         => /\ pending_edits'[Head(batch).chat] = NoDraft
            /\ comments' = comments
            /\ drafts' = drafts
            /\ pc' = "loop"]_vars

\* C13 witness: an edit request was cancelled with " /Cancel ": the marker is
\* gone and the draft is the pending row the scan saved.
C13_Witness ==
    /\ outcome = "cancelled"
    /\ cur.text = " /Cancel "
    /\ pending_edits[cur.chat] = NoDraft
    /\ \E r \in drafts : r.id = "d1" /\ r.status = "pending" /\ r.content = "gen1"
    /\ comments = <<>>

\* C14: when the handler of a text message received under a pending-edit marker
\* finishes (the draft was missing, the post attempt failed, or the reply was
\* posted and recorded), the chat has no marker, so its next text message is not
\* taken as edit content.
C14_MarkerGoneAfterReplacement ==
    [][/\ (HandlerStarts /\ IsTextUnderMarker(Head(batch)) /\ pc' = "loop")
          => pending_edits'[Head(batch).chat] = NoDraft
       /\ (pc \in {"edit_call", "edit_record"} /\ pc' = "loop")
          => pending_edits'[cur.chat] = NoDraft]_vars

\* C14 witness: the post attempt for replacement text failed and the marker of
\* the chat is gone.
C14_Witness ==
    /\ pc = "loop"
    /\ outcome = "failed"
    /\ cur.kind = "message"
    /\ pending_edits[cur.chat] = NoDraft

\* C15: replacement text for an existing draft is stored as the draft's content
\* (status `edited`) before the post attempt; the text submitted is the
\* replacement text, on the draft's post; the draft ends `posted` when the
\* attempt succeeded and stays `edited` with the replacement text when it failed.
C15_ReplacementTextIsStoredAndPosted ==
    [][/\ (/\ HandlerStarts
            /\ IsTextUnderMarker(Head(batch))
            /\ Lower(Strip(Chars(Head(batch).text))) # Chars("/cancel")
            /\ RowsById(drafts, pending_edits[Head(batch).chat]) # {})
          => /\ \E r \in drafts' :
                   /\ r.id = pending_edits[Head(batch).chat]
                   /\ r.content = Head(batch).text
                   /\ r.status = "edited"
             /\ comments' = comments
             /\ pc' = "edit_call"
       /\ (pc = "edit_call" /\ comments' # comments)
          => /\ Len(comments') = Len(comments) + 1
             /\ SubSeq(comments', 1, Len(comments)) = comments
             /\ comments'[Len(comments')].text = cur.text
             /\ comments'[Len(comments')].post_id = draft.post_id
       /\ (pc = "edit_record" /\ pc' = "loop" /\ crashes' = crashes)
          => \E r \in drafts' :
                r.id = draft.id /\ r.status = "posted" /\ r.content = cur.text
       /\ (pc = "edit_call" /\ pc' = "loop" /\ crashes' = crashes)
          => /\ \E r \in drafts' :
                   r.id = draft.id /\ r.status = "edited" /\ r.content = cur.text
             /\ comments' = comments]_vars

\* C15 witness: the platform holds a reply whose text is the replacement text
\* and the draft is `posted` with that text as its content.
C15_Witness ==
    /\ pc = "loop"
    /\ outcome = "posted"
    /\ cur.kind = "message"
    /\ \E r \in drafts : r.id = draft.id /\ r.status = "posted" /\ r.content = cur.text
    /\ \E i \in 1..Len(comments) :
          comments[i].text = cur.text /\ comments[i].post_id = draft.post_id

\* the update is one the bot only acknowledges: a text message from a chat with
\* no pending-edit marker, a button with an unrecognized action, or callback
\* data without ":"
IsNoOpEvent(u) ==
    \/ u.kind = "message" /\ pending_edits[u.chat] = NoDraft
    \/ u.kind = "callback" /\ ColonAt(u.data) = 0
    \/ /\ u.kind = "callback"
       /\ ColonAt(u.data) # 0
       /\ ActionOf(u.data) \notin {<<"post">>, <<"edit">>, <<"skip">>}

\* C16: handling a text message with no marker for its chat, a callback with an
\* unrecognized action, or callback data without ":" finishes without changing
\* any draft row or the pending-edit map and without submitting a reply.
C16_OtherEventsChangeNothing ==
    [][(HandlerStarts /\ IsNoOpEvent(Head(batch)))
         => /\ drafts' = drafts
            /\ pending_edits' = pending_edits
            /\ comments' = comments
            /\ pc' = "loop"]_vars

\* C16 witness: a button with an unknown action was handled while an edit
\* request was open; the marker and the draft are still there.
C16_Witness ==
    /\ outcome = "unknown_action"
    /\ pending_edits[ConfiguredChat] # NoDraft
    /\ RowsById(drafts, DraftIdOf(cur.data)) # {}

\* C17: a button callback whose draft id is not in the store is reported as not
\* found and finishes without changing the store or the pending-edit map and
\* without submitting a reply.
C17_UnknownDraftChangesNothing ==
    [][(/\ HandlerStarts
        /\ Head(batch).kind = "callback"
        /\ ColonAt(Head(batch).data) # 0
        /\ RowsById(drafts, DraftIdOf(Head(batch).data)) = {})
         => /\ outcome' = "not_found"
            /\ drafts' = drafts
            /\ pending_edits' = pending_edits
            /\ comments' = comments
            /\ pc' = "loop"]_vars

\* C17 witness: a button of a draft that cleanup has removed was reported as
\* not found while the store holds another draft.
C17_Witness ==
    /\ outcome = "not_found"
    /\ RowsById(drafts, DraftIdOf(cur.data)) = {}
    /\ drafts # {}

\* the two reply actions of the client
ReplyOps == {"create_comment", "reply_to_comment"}

\* the replies the platform accepted from the present client, as positions in
\* the log
RepliesOfClient ==
    {i \in 1..Len(accepted) :
        accepted[i].op \in ReplyOps /\ accepted[i].client = crashes}

\* the top-level posts to the community that the present client made with a
\* call that returned
PostsOfClient(sub) ==
    {i \in 1..Len(accepted) :
        /\ accepted[i].op = "create_post"
        /\ accepted[i].target = sub
        /\ accepted[i].returned
        /\ accepted[i].client = crashes}

\* the time of the latest of the logged actions, NoTime when there is none
LastAt(positions) ==
    IF positions = {} THEN NoTime
    ELSE accepted[CHOOSE i \in positions : \A j \in positions : j <= i].at

\* less than the minimum interval has passed since the action at time `last`
TooSoon(last, min_wait) == last # NoTime /\ now - last < min_wait

\* this step is a direct call of one of the client operations
IsCallOf(ops) == call'.n = call.n + 1 /\ call'.op \in ops

\* C18: a reply action attempted less than the minimum interval after the
\* client's last successful reply raises at once, stating the remaining wait,
\* and reaches neither the platform nor the gate's timestamp; and any two
\* replies the platform accepted from one client are at least the minimum
\* interval apart.
C18_RepliesAreRejectedNotDelayed ==
    /\ [](\A i, j \in 1..Len(accepted) :
             (/\ i < j
              /\ accepted[i].op \in ReplyOps
              /\ accepted[j].op \in ReplyOps
              /\ accepted[i].client = accepted[j].client)
                => accepted[j].at - accepted[i].at >= MinSecondsBetweenComments)
    /\ [][(/\ IsCallOf(ReplyOps)
            /\ TooSoon(LastAt(RepliesOfClient), MinSecondsBetweenComments))
             => /\ call'.result = "must_wait"
                /\ call'.wait = MinSecondsBetweenComments
                                   - (now - LastAt(RepliesOfClient))
                /\ call'.wait > 0
                /\ now' = now
                /\ accepted' = accepted
                /\ comments' = comments
                /\ last_comment_time' = last_comment_time]_vars

\* C18 witness: reply_to_comment was refused with the remaining wait right
\* after a create_comment that the platform accepted.
C18_Witness ==
    /\ call.op = "reply_to_comment"
    /\ call.result = "must_wait"
    /\ call.wait = MinSecondsBetweenComments
    /\ \E i \in RepliesOfClient : accepted[i].op = "create_comment" /\ accepted[i].at = now

\* C19: a top-level post is refused by the gate exactly when the same community
\* had a successful post less than the post interval ago, and it touches only
\* that community's timestamp; a reply action is refused exactly when a reply
\* of either kind succeeded less than the reply interval ago, and it touches
\* only the reply timestamp.
C19_GateScopesAreIndependent ==
    [][/\ IsCallOf({"create_post"})
          => /\ (call'.result = "must_wait")
                   <=> TooSoon(LastAt(PostsOfClient(call'.target)), MinSecondsBetweenPosts)
             /\ last_comment_time' = last_comment_time
             /\ \A sub \in Subreddits \ {call'.target} :
                   last_post_time'[sub] = last_post_time[sub]
             /\ (call'.result = "ok") => last_post_time'[call'.target] = now
       /\ IsCallOf(ReplyOps)
          => /\ (call'.result = "must_wait")
                   <=> TooSoon(LastAt(RepliesOfClient), MinSecondsBetweenComments)
             /\ last_post_time' = last_post_time
             /\ (call'.result = "ok") => last_comment_time' = now]_vars

\* C19 witness: a post to one community went through while the gate of the
\* other community and the reply gate were both closed.
C19_Witness ==
    /\ call.op = "create_post"
    /\ call.result = "ok"
    /\ call.target = "startups"
    /\ ~CanPostToSubreddit(last_post_time, "python", now)
    /\ ~CanComment(last_comment_time, now)

\* C20: a row that disappears from the store had status `rejected` or `posted`
\* and was created before the cutoff of one of the retention windows; a
\* `pending` or `edited` row is never removed.
C20_CleanupSparesOpenDrafts ==
    [][\A r \in drafts :
          (\A q \in drafts' : q.id # r.id)
             => /\ r.status \in {"rejected", "posted"}
                /\ \E days \in RetentionChoices : r.created_at < now - days]_vars

\* C20 witness: cleanup has removed a row while an open draft, created before
\* the cutoff as well, is still in the store.
C20_Witness ==
    /\ Cardinality(drafts) < next_draft_id - 1
    /\ \E r \in drafts : r.status \in {"pending", "edited"} /\ r.created_at < now
\* the scan run sc starts an iteration of send_drafts_for_approval on post p
ScanTakes(sc, p) ==
    /\ scan[sc].pc = "idle"
    /\ scan'[sc] # scan[sc]
    /\ p = IF scan'[sc].pc = "idle" THEN scan'[sc].skipped ELSE scan'[sc].post_id

\* C21: when send_drafts_for_approval comes to a post whose draft the human
\* has already acted on (the row is neither pending nor edited), the iteration
\* is skipped: the table is left as it is, save_draft is not started (so the
\* row is not reset to pending) and the run does not get to sending an
\* approval message for it
C21_ProcessedPostIsSkipped ==
    [][\A sc \in Scanners, p \in PostIds :
          (/\ ScanTakes(sc, p)
           /\ \E r \in drafts : r.post_id = p /\ r.status \notin {"pending", "edited"})
          => /\ drafts' = drafts
             /\ scan'[sc].pc = "idle"
             /\ saves' = saves]_vars

\* a scan run has passed over a post whose draft is posted or rejected
C21_Witness ==
    \E sc \in Scanners, r \in drafts :
        /\ scan[sc].pc = "idle"
        /\ scan[sc].skipped = r.post_id
        /\ r.status \in {"posted", "rejected"}

\* C22: every Classification that classify returns has a confidence in the
\* closed range [0, 1], whatever the provider wrote in the confidence field
C22_ConfidenceInUnitRange ==
    (classified.exc = "none")
    => /\ FloatGe(classified.value.confidence, Fin(0))
       /\ FloatGe(Fin(10), classified.value.confidence)

\* what _ai_classify finds in the provider's text once the code block is removed
ParsedText == RemoveCodeBlock(StripTokens(response.text))
IsJsonObject ==
    Len(ParsedText) = 1 /\ ParsedText[1].t = "value" /\ ParsedText[1].v.type = "object"

RuleOrder == <<"hot_lead", "partnership", "competitor", "content_idea">>
MatchedGroups == { i \in 1..4 : AnySignal(RuleText(post), Signals[RuleOrder[i]]) }

\* C24: the rule-based classifier returns the first of hot-lead, partnership,
\* competitor, content-idea that has a keyword in the lower-cased title and
\* body, else noise, with confidence 0.6, 0.6, 0.6, 0.5 and 0.4
C24_RuleOrderAndConfidence ==
    (credential = "none" /\ classified # NotCalled)
    => /\ classified.exc = "none"
       /\ IF MatchedGroups = {}
            THEN /\ classified.value.intent = "noise"
                 /\ classified.value.confidence = Fin(4)
            ELSE \E i \in MatchedGroups :
                    /\ \A j \in MatchedGroups : i <= j
                    /\ classified.value.intent = RuleOrder[i]
                    /\ classified.value.confidence =
                          IF RuleOrder[i] = "content_idea" THEN Fin(5) ELSE Fin(6)

\* a title "Looking for" with the body "launched" matches a hot-lead and a
\* competitor signal and is classified hot-lead
C24_Witness ==
    /\ credential = "none"
    /\ post.title = <<"Looking", "for">>
    /\ post.selftext = <<"launched">>
    /\ 1 \in MatchedGroups
    /\ 3 \in MatchedGroups
    /\ classified = Returns(Classification("hot_lead", Fin(6), "hot lead keywords (rule-based)"))

\* C25: score_post is (score + 2 * num_comments) * priority_boost * intent_boost:
\* priority_boost 1.0 for a community without a configured boost; intent_boost
\* 1.0 without a classification and for competitor and noise, and 2.0, 1.5,
\* 1.2 times the confidence for hot-lead, partnership, content-idea.  The score
\* is in thousandths, the boosts in tenths and hundredths
C25_ScoreIsEngagementTimesBoosts ==
    score.called
    => LET prefs == config.subreddit_preferences
           configured == /\ post.subreddit \in DOMAIN prefs
                         /\ prefs[post.subreddit].priority_boost # Unset
           priority_boost == IF configured THEN prefs[post.subreddit].priority_boost ELSE 10
           c == classified.value
           factor == CASE c.intent = "hot_lead" -> 20
                       [] c.intent = "partnership" -> 15
                       [] c.intent = "content_idea" -> 12
                       [] OTHER -> 0
           intent_boost == IF classified = NotCalled \/ factor = 0 THEN 100
                           ELSE factor * c.confidence.v
       IN  score.value = (post.score + 2 * post.num_comments) * priority_boost * intent_boost

\* the spec's scenario: score 10, 3 comments, a community without a boost, no
\* classification: the score is 16
C25_Witness ==
    /\ score.called
    /\ post.score = 10
    /\ post.num_comments = 3
    /\ post.subreddit = "other"
    /\ config.subreddit_preferences = NoPreferences
    /\ classified = NotCalled
    /\ score.value = 16000

\* C26: generate_response returns no draft and asks the provider nothing when
\* the classification is noise, competitor or content-idea, when its
\* confidence is below 0.5, and when no generation capability is configured
C26_OnlyActionableIsDrafted ==
    (/\ generated.called
     /\ \/ classified.value.intent \in {"noise", "competitor", "content_idea"}
        \/ FloatLt(classified.value.confidence, Fin(5))
        \/ credential # "anthropic")
    => /\ generated.draft = NoDraftResponse
       /\ generated.requests = 0

\* C29: a finished scan that found a post has sent exactly one summary
\* notification, of priority normal with no hot lead among the kept results,
\* high with one or two, urgent with three or more; a scan that found nothing
\* has sent none
C29_PriorityFollowsHotLeads ==
    (run.pc = "done")
    => IF \A k \in DOMAIN found : found[k] = <<>>
         THEN notifications = <<>>
         ELSE /\ Len(notifications) = 1
              /\ LET kept == results["leads"] \o results["partners"]
                     hot == Cardinality({ i \in 1..Len(kept) :
                                            kept[i].classification.intent = "hot_lead" })
                 IN  notifications[1].priority =
                        CASE hot = 0 -> "normal"
                          [] hot \in {1, 2} -> "high"
                          [] OTHER -> "urgent"

\* a scan whose first category found a hot lead and a noise post of higher
\* score and kept one post per category: the hot lead was cut, one hot lead
\* of the second category was kept, the notification is high
C29_Witness ==
    /\ run.pc = "done"
    /\ config.max_posts_per_category = 1
    /\ Len(found["leads"]) = 2
    /\ found["leads"][1].classification.intent = "hot_lead"
    /\ Len(results["leads"]) = 1
    /\ results["leads"][1].classification.intent = "noise"
    /\ Len(results["partners"]) = 1
    /\ results["partners"][1].classification.intent = "hot_lead"
    /\ Len(notifications) = 1
    /\ notifications[1].priority = "high"

\* how often the running handler called `op`
CallsOf(op) == Len(SelectSeq(handler_calls, LAMBDA c : c = op))

\* C27: whatever path handle_callback takes for a button callback (malformed
\* data, draft not found, post, edit, skip, unknown action), the handler
\* answers the callback exactly once, as the first call it makes; the posting
\* call of the post path is made by a handler that has answered already
\* (a restart ends the handler where it stands).
C27_CallbackAnsweredOnceAndFirst ==
    /\ [](cur.kind = "callback"
            => /\ CallsOf("answer_callback") = 1
               /\ Head(handler_calls) = "answer_callback")
    /\ [][(pc = "post_call" /\ pc' # "post_call" /\ crashes' = crashes)
            => /\ handler_calls = <<"answer_callback">>
               /\ handler_calls' = <<"answer_callback", "create_comment">>]_vars

\* a post button was answered and the posting call then failed
C27_Witness ==
    /\ IsButton(cur, "post")
    /\ pc = "loop"
    /\ outcome \in {"failed", "rate_limited"}
    /\ handler_calls = <<"answer_callback", "create_comment">>

\* C28: handling one inbound event calls the posting operation at most once:
\* the handler reaches the call only from its start, on an update the process
\* has not handled before, and a failed call ends the handler, so no posting
\* call follows a failure until the next update is taken (a restart of the
\* process apart).
C28_FailedPostIsNotRetried ==
    /\ [](CallsOf("create_comment") <= 1)
    /\ [][/\ (pc' \in {"post_call", "edit_call"} /\ pc' # pc)
             => /\ HandlerStarts
                /\ cur'.update_id > last_update_id
                /\ \A i \in DOMAIN handler_calls' : handler_calls'[i] # "create_comment"
          /\ (/\ pc \in {"post_call", "edit_call"}
              /\ handler_calls' # handler_calls
              /\ crashes' = crashes)
             => /\ handler_calls' = Append(handler_calls, "create_comment")
                /\ pc' \notin {"post_call", "edit_call"}
                /\ comments' = comments => (pc' = "loop" /\ batch' = batch)]_vars

\* the posting call of a replacement text failed and the handler has returned
C28_Witness ==
    /\ cur.kind = "message"
    /\ pc = "loop"
    /\ outcome = "failed"
    /\ CallsOf("create_comment") = 1
    /\ comments = <<>>

\* C30: the marker an edit button records is the marker of the chat the button
\* was pressed in, and handling a message from a chat other than the one that
\* holds a marker changes no draft row, submits nothing, reaches no posting
\* call and leaves the other chat's marker in place.
C30_OnlyTheMarkedChatEdits ==
    [][/\ (HandlerStarts /\ IsButton(cur', "edit") /\ pending_edits' # pending_edits)
          => /\ pending_edits'[cur'.chat] # NoDraft
             /\ \A c \in Chats \ {cur'.chat} : pending_edits'[c] = pending_edits[c]
       /\ (HandlerStarts /\ cur'.kind = "message" /\ pending_edits[cur'.chat] = NoDraft)
          => /\ drafts' = drafts
             /\ comments' = comments
             /\ pc' = "loop"
             /\ pending_edits' = pending_edits]_vars

\* a message from another chat was handled while the configured chat's marker was set
C30_Witness ==
    /\ cur.kind = "message"
    /\ cur.chat # ConfiguredChat
    /\ pending_edits[ConfiguredChat] # NoDraft
    /\ outcome = "ignored"
    /\ pc = "loop"

\* C31: no chat holds a pending-edit marker for a draft that is posted or
\* rejected.
C31_NoMarkerForFinishedDraft ==
    \A c \in Chats :
        pending_edits[c] # NoDraft
          => \A r \in RowsById(drafts, pending_edits[c]) :
                r.status \notin {"posted", "rejected"}

\* C32: a step that sets a row's status to rejected leaves the row's posted
\* timestamp and comment id as they were.
C32_OnlyPostedTouchesTimestamp ==
    [][\A r \in drafts, q \in drafts' :
          (q.id = r.id /\ q.status = "rejected" /\ r.status # "rejected")
            => /\ q.posted_at = r.posted_at
               /\ q.reddit_comment_id = r.reddit_comment_id]_vars

\* C36: a row whose status is not posted has no posted timestamp and no
\* comment id.
C36_UnpostedHasNoTimestamp ==
    \A r \in drafts :
        r.status # "posted"
          => r.posted_at = NoTime /\ r.reddit_comment_id = NoComment

\* C33: a call of the client that did not return normally leaves every
\* timestamp of the gate as it was; a timestamp changes only in a call that
\* returned normally, and then to the time of the call; a search is never
\* refused by the gate and changes no timestamp.
C33_FailedCallKeepsTimestamps ==
    [][/\ (call' # call /\ call'.result # "ok")
          => /\ last_comment_time' = last_comment_time
             /\ last_post_time' = last_post_time
       /\ (last_comment_time' # last_comment_time \/ last_post_time' # last_post_time)
          => /\ call' # call
             /\ call'.result = "ok"
             /\ call'.op # "search_posts"
             /\ \E i \in DOMAIN accepted' :
                   accepted'[i].at = now /\ accepted'[i].returned
       /\ (call' # call /\ call'.op = "search_posts")
          => /\ call'.result # "must_wait"
             /\ last_comment_time' = last_comment_time
             /\ last_post_time' = last_post_time]_vars

\* the platform call of a reply raised after the gate had let it through, and
\* the reply timestamp is still the one of the reply accepted a tick earlier
C33_Witness ==
    /\ call.op = "create_comment"
    /\ call.result = "platform_error"
    /\ last_comment_time # NoTime
    /\ last_comment_time < now

\* C37: no step changes the id of the row of a source post, and a save_draft
\* that finds a row for its post, and updates that row, returns the id the row
\* has had all along (a row that a cleanup removed between the SELECT and the
\* UPDATE of the call is not the row the call found).
C37_DraftIdIsStable ==
    [][/\ \A r \in drafts, q \in drafts' : q.post_id = r.post_id => q.id = r.id
       /\ \A sc \in Scanners :
             (/\ scan[sc].pc = "write"
              /\ scan'[sc].pc = "send"
              /\ RowsByPost(drafts, scan[sc].post_id) \cap RowsById(drafts, scan[sc].existing) # {})
                => \A q \in RowsByPost(drafts', scan[sc].post_id) :
                      /\ q.id = scan'[sc].existing
                      /\ \A r \in RowsByPost(drafts, scan[sc].post_id) : r.id = q.id]_vars

\* a rescan has rewritten a row and returned the id the row was created with
C37_Witness ==
    \E sc \in Scanners :
        /\ scan[sc].pc = "send"
        /\ scan[sc].prev \in {"pending", "edited"}
        /\ scan[sc].payload.content = "gen2"
        /\ \E r \in drafts :
              /\ r.post_id = scan[sc].post_id
              /\ r.id = scan[sc].existing
              /\ r.id = "d1"
              /\ r.content = "gen2"

\* C38: the content of a posted row is the text of the reply that the
\* platform accepted under the row's comment id.
C38_PostedContentIsWhatWasSubmitted ==
    \A r \in drafts :
        r.status = "posted"
          => \E i \in DOMAIN comments :
                /\ comments[i].comment_id = r.reddit_comment_id
                /\ comments[i].text = r.content

\* C35: for every category the loop has passed, the kept posts are at most
\* max_posts_per_category (all of them when fewer were found), each is one of
\* the classified posts, they stand in descending score order with equal scores
\* in the order of the input, and every post left out scores lower than each
\* kept one or equals it in score and came later in the input.
C35_TopPostsAreStableTopN ==
    \A c \in 1..Len(CategoryKeys) :
        c < run.next
          => LET e == found[CategoryKeys[c]]
                 r == results[CategoryKeys[c]]
                 limit == IF config.max_posts_per_category = Unset THEN DefaultMaxPosts
                          ELSE config.max_posts_per_category
                 s(x) == ScorePost(x.post, config, x.classification)
                 at(x) == CHOOSE i \in 1..Len(e) : e[i] = x
                 kept == { r[a] : a \in 1..Len(r) }
             IN  /\ Len(r) = IF Len(e) < limit THEN Len(e) ELSE limit
                 /\ \A a \in 1..Len(r) : \E i \in 1..Len(e) : e[i] = r[a]
                 /\ \A a, b \in 1..Len(r) :
                       a < b => \/ s(r[a]) > s(r[b])
                                \/ s(r[a]) = s(r[b]) /\ at(r[a]) < at(r[b])
                 /\ \A i \in 1..Len(e), a \in 1..Len(r) :
                       e[i] \notin kept
                         => \/ s(e[i]) < s(r[a])
                            \/ s(e[i]) = s(r[a]) /\ at(r[a]) < i

\* two posts of equal score were found and max_posts_per_category is 1: the
\* first of them was kept
C35_Witness ==
    /\ run.next > 1
    /\ config.max_posts_per_category = 1
    /\ Len(found["leads"]) = 2
    /\ ScorePost(found["leads"][1].post, config, found["leads"][1].classification)
         = ScorePost(found["leads"][2].post, config, found["leads"][2].classification)
    /\ results["leads"] = <<found["leads"][1]>>

\* C39: while a scan run is a dry run, or has response generation or
\* classification switched off, or has no Telegram configuration, the draft
\* store has no row from it and no approval message has been sent.
C39_OnlyFullRunsReachTheStore ==
    (run.dry_run \/ ~run.respond \/ ~run.classify \/ ~run.telegram)
      => /\ drafts = {}
         /\ run.at = 0
         /\ run.sent = 0

\* a dry run with classification, generation and Telegram all set has
\* generated drafts and finished without a row in the store
C39_Witness ==
    /\ run.pc = "done"
    /\ run.dry_run /\ run.respond /\ run.classify /\ run.telegram
    /\ run.drafts # {}
    /\ drafts = {}
    /\ run.sent = 0

\* the posts of all_posts that are the first with their id, in their order
FirstOccurrences(all_posts) ==
    LET firsts == SelectSeq([i \in 1..Len(all_posts) |-> i],
                     LAMBDA i : \A j \in 1..(i - 1) : all_posts[j].id # all_posts[i].id)
    IN  [r \in 1..Len(firsts) |-> all_posts[firsts[r]]]

\* C34: what search_category returns is the sequence of the first occurrences
\* of the ids among the gathered posts: each id once, at the place of its first
\* occurrence, with the data of that occurrence.
C34_FirstOccurrenceWins ==
    search.pc = "done" => search.unique = FirstOccurrences(search.all_posts)

====
